---- MODULE Spec2Model ----
(***************************************************************************)
(* A model of coap-lite: the observation subject (src/src/observe.rs), the *)
(* message codec (src/src/packet.rs, src/src/header.rs,                    *)
(* src/src/option_value.rs) and the block-wise transfer handler            *)
(* (src/src/block_handler/mod.rs, src/src/block_handler/block_value.rs).   *)
(*                                                                         *)
(* Rust values are modelled as follows: Option<T> is a sequence of length  *)
(* 0 (None) or 1 (Some), Vec<u8> is a sequence of numbers 0..255, a        *)
(* BTreeMap is a function whose DOMAIN is the set of keys present, a       *)
(* LinkedList or Vec is a sequence, a struct is a record.                  *)
(***************************************************************************)
EXTENDS Integers, Sequences, FiniteSets, TLC

\* ------------------------------------------------------------------ bounds

\* resource_changed is taken only while the resource's sequence is below this.
MaxSequence == 2

\* The same cap in the age-out specification, which has to run a u8 counter
\* past its largest value.
MaxAgeOutSequence == 257

\* ------------------------------------------------------- program constants

DEFAULT_UNACKNOWLEDGED_LIMIT == 10

\* u8::MAX, the largest value of Observer::unacknowledged_messages.
U8_MAX == 255

\* ----------------------------------------------------------------- Option

None == <<>>

Some(x) == <<x>>

is_some(o) == Len(o) = 1

unwrap(o) == o[1]

\* ------------------------------------------------------------------ state

VARIABLES
    resources,             \* Subject::resources: path -> Resource
    unacknowledged_limit,  \* Subject::unacknowledged_limit
    panicked,              \* a handler has panicked (the run is over)
    last,                  \* history: the last operation, and the endpoint
                           \* and message id of an acknowledgement
    changes,               \* history: per path, resource_changed calls since
                           \* the resource was created
    message,               \* codec: the Packet the caller has built
    encoded,               \* codec: Option of the Result of encoding message
    decoded,               \* codec: Option of the Result of decoding encoded
    config,                \* BlockHandler::config.max_total_message_size
    states,                \* BlockHandler::states: key -> BlockState
    forwarded,             \* Option of the request the application is handling
    outcome,               \* history: the last call of the block handler
    transfer,              \* history: per key, the Block2 transfer in progress
    upload,                \* history: per key, the Block1 upload in progress
    final_served,          \* history: per key, whether the last call served
                           \* the final block of a cached response
    latest                 \* history: per key, the payload of the last
                           \* response of the application that was passed to
                           \* intercept_response since the state was created

observe_vars == <<resources, unacknowledged_limit, last, changes>>

codec_vars == <<message, encoded, decoded>>

block_vars ==
    <<config, states, forwarded, outcome, transfer, upload, final_served,
      latest>>

non_observe_vars == <<codec_vars, block_vars>>

vars == <<observe_vars, codec_vars, block_vars, panicked>>

\* ================================================================= header

Empty == <<"Empty">>

Request(request_type) == <<"Request", request_type>>

Response(response_type) == <<"Response", response_type>>

Reserved == <<"Reserved">>

\* The code bytes that From<u8> for MessageClass names, with their classes.
CodeTable ==
    <<<<0, Empty>>,
      <<1, Request("Get")>>, <<2, Request("Post")>>, <<3, Request("Put")>>,
      <<4, Request("Delete")>>,
      <<65, Response("Created")>>, <<66, Response("Deleted")>>,
      <<67, Response("Valid")>>, <<68, Response("Changed")>>,
      <<69, Response("Content")>>, <<95, Response("Continue")>>,
      <<128, Response("BadRequest")>>, <<129, Response("Unauthorized")>>,
      <<130, Response("BadOption")>>, <<131, Response("Forbidden")>>,
      <<132, Response("NotFound")>>, <<133, Response("MethodNotAllowed")>>,
      <<134, Response("NotAcceptable")>>,
      <<140, Response("PreconditionFailed")>>,
      <<141, Response("RequestEntityTooLarge")>>,
      <<143, Response("UnsupportedContentFormat")>>,
      <<136, Response("RequestEntityIncomplete")>>,
      <<157, Response("TooManyRequests")>>,
      <<144, Response("InternalServerError")>>,
      <<145, Response("NotImplemented")>>, <<146, Response("BadGateway")>>,
      <<147, Response("ServiceUnavailable")>>,
      <<148, Response("GatewayTimeout")>>,
      <<149, Response("ProxyingNotSupported")>>>>

\* From<u8> for MessageClass
class_from_u8(number) ==
    IF \E i \in 1..Len(CodeTable) : CodeTable[i][1] = number
    THEN CodeTable[CHOOSE i \in 1..Len(CodeTable) : CodeTable[i][1] = number][2]
    ELSE Reserved

\* From<MessageClass> for u8
u8_from_class(class) ==
    IF \E i \in 1..Len(CodeTable) : CodeTable[i][2] = class
    THEN CodeTable[CHOOSE i \in 1..Len(CodeTable) : CodeTable[i][2] = class][1]
    ELSE 255

\* HeaderRaw::default() through Header::from_raw
default_header ==
    [ver_type_tkl |-> 64, code |-> class_from_u8(1), message_id |-> 0]

MessageTypes ==
    <<"Confirmable", "NonConfirmable", "Acknowledgement", "Reset">>

\* Header::set_type: tn << 4 | (0xCF & ver_type_tkl)
header_set_type(header, t) ==
    LET tn == (CHOOSE i \in 1..4 : MessageTypes[i] = t) - 1
    IN  [header EXCEPT
            !.ver_type_tkl = (tn * 16) + ((@ \div 64) * 64) + (@ % 16)]

\* Header::get_type
header_get_type(header) == MessageTypes[((header.ver_type_tkl % 64) \div 16) + 1]

\* Header::set_version: v << 6 | (0x3F & ver_type_tkl), in u8
header_set_version(header, v) ==
    [header EXCEPT !.ver_type_tkl = ((v * 64) % 256) + (@ % 64)]

\* Header::get_version
header_get_version(header) == header.ver_type_tkl \div 64

\* Header::set_token_length, where the assert_eq holds: tkl | (0xF0 & ver_type_tkl)
header_set_token_length(header, tkl) ==
    [header EXCEPT !.ver_type_tkl = tkl + ((@ \div 16) * 16)]

\* Header::get_token_length
header_get_token_length(header) == header.ver_type_tkl % 16

\* ================================================================= packet

\* Packet::new()
new_packet ==
    [header |-> default_header, token |-> <<>>, options |-> <<>>,
     payload |-> <<>>]

\* The assert_eq of Header::set_token_length on token.len() as u8 holds.
token_length_fits(token) == (Len(token) % 256) \div 16 = 0

\* Packet::set_token, where the assert_eq of Header::set_token_length holds
\* (token_length_fits); token.len() as u8 is the length modulo 256
set_token(packet, token) ==
    [packet EXCEPT !.header = header_set_token_length(@, Len(token) % 256),
                   !.token = token]

\* BTreeMap::insert
map_insert(map, key, value) ==
    [k \in DOMAIN map \cup {key} |-> IF k = key THEN value ELSE map[k]]

\* Packet::set_option
set_option(packet, number, value_list) ==
    [packet EXCEPT !.options = map_insert(@, number, value_list)]

\* Packet::add_option
add_option(packet, number, value) ==
    IF number \in DOMAIN packet.options
    THEN [packet EXCEPT !.options[number] = Append(@, value)]
    ELSE [packet EXCEPT !.options = map_insert(@, number, <<value>>)]

\* Packet::get_option
get_option(packet, number) ==
    IF number \in DOMAIN packet.options THEN Some(packet.options[number])
    ELSE None

\* Packet::get_first_option (LinkedList::front of the option's values)
get_first_option(packet, number) ==
    IF number \in DOMAIN packet.options /\ packet.options[number] # <<>>
    THEN Some(packet.options[number][1])
    ELSE None

Ok(v) == [ok |-> TRUE, v |-> v]

Err(e) == [ok |-> FALSE, e |-> e]

\* The extension bytes of a delta or length field in Packet::to_bytes_internal;
\* `as u8` and `as u16` truncate.
extension_bytes(field) ==
    IF field > 12 /\ field < 269 THEN <<(field - 13) % 256>>
    ELSE IF field >= 269
    THEN LET fix == (field - 269) % 65536
         IN  <<fix \div 256, fix % 256>>
    ELSE <<>>

\* nibble with the one-byte form reaching to 269.
nibble_through_269(field) ==
    IF field <= 12 THEN field ELSE IF field <= 269 THEN 13 ELSE 14

\* The nibble of a delta or length field in Packet::to_bytes_internal.
nibble(field) ==
    IF field <= 12 THEN field ELSE IF field < 269 THEN 13 ELSE 14

\* The bytes Packet::to_bytes_internal emits for one option value.
option_bytes(delta, value) ==
    <<nibble(delta) * 16 + nibble(Len(value))>>
        \o extension_bytes(delta) \o extension_bytes(Len(value)) \o value

RECURSIVE values_bytes(_, _, _)
\* The inner loop of Packet::to_bytes_internal: the values of one option
\* number, options_delta_length being the number of the option before.
values_bytes(number, value_list, options_delta_length) ==
    IF value_list = <<>> THEN <<>>
    ELSE option_bytes(number - options_delta_length, value_list[1])
             \o values_bytes(number, Tail(value_list), number)

\* The smallest key of a BTreeMap, the first its iterator yields.
first_key(keys) == CHOOSE k \in keys : \A j \in keys : k <= j

RECURSIVE options_bytes(_, _, _)
\* The outer loop of Packet::to_bytes_internal over the numbers in `keys`, in
\* ascending order. options_delta_length moves only when a value is written.
options_bytes(options, keys, options_delta_length) ==
    IF keys = {} THEN <<>>
    ELSE LET number == first_key(keys)
             running == IF options[number] = <<>> THEN options_delta_length
                        ELSE number
         IN  values_bytes(number, options[number], options_delta_length)
                 \o options_bytes(options, keys \ {number}, running)

\* Whether Packet::to_bytes_internal writes the payload marker and the payload.
has_payload_marker(packet) ==
    packet.header.code # Empty /\ packet.payload # <<>>

\* buf_length in Packet::to_bytes_internal
buf_length(packet) ==
    4 + Len(packet.payload) + Len(packet.token)
      + (IF has_payload_marker(packet) THEN 1 ELSE 0)
      + Len(options_bytes(packet.options, DOMAIN packet.options, 0))

\* Header::to_raw and HeaderRaw::serialize_into
header_bytes(header) ==
    <<header.ver_type_tkl, u8_from_class(header.code),
      header.message_id \div 256, header.message_id % 256>>

\* Packet::to_bytes_internal; limit is an Option.
to_bytes_internal(packet, limit) ==
    IF is_some(limit) /\ buf_length(packet) > unwrap(limit)
    THEN Err("InvalidPacketLength")
    ELSE Ok(header_bytes(packet.header) \o packet.token
              \o options_bytes(packet.options, DOMAIN packet.options, 0)
              \o (IF has_payload_marker(packet)
                  THEN <<255>> \o packet.payload ELSE <<>>))

\* Packet::MAX_SIZE without the feature "udp"
MAX_SIZE == 1280

\* Packet::to_bytes
to_bytes(packet) == to_bytes_internal(packet, Some(MAX_SIZE))

\* A slice buf[from..to] of a 0-based byte buffer.
slice(buf, from, to) == SubSeq(buf, from + 1, to)

\* be_u16_at without the swap of from_be.
le_u16_at(buf, idx) == buf[idx + 1] + buf[idx + 2] * 256

\* u16::from_be(u8_to_unsigned_be!(buf, idx, idx + 1, u16)) on a little-endian
\* target: the macro reads the two bytes low byte first, from_be swaps them.
be_u16_at(buf, idx) == buf[idx + 1] * 256 + buf[idx + 2]

\* read_delta with the extended delta wrapped to u16 instead of checked.
read_delta_wrapping(buf, nib, idx) ==
    CASE nib = 13 ->
             IF idx >= Len(buf) THEN Err("InvalidOptionLength")
             ELSE Ok([field |-> buf[idx + 1] + 13, idx |-> idx + 1])
      [] nib = 14 ->
             IF idx + 1 >= Len(buf) THEN Err("InvalidOptionLength")
             ELSE Ok([field |-> (be_u16_at(buf, idx) + 269) % 65536,
                      idx |-> idx + 2])
      [] nib = 15 -> Err("InvalidOptionDelta")
      [] OTHER -> Ok([field |-> nib, idx |-> idx])

\* The match on the delta nibble in Packet::from_bytes: the delta and the
\* index after its extension bytes, or the error.
read_delta(buf, nib, idx) ==
    CASE nib = 13 ->
             IF idx >= Len(buf) THEN Err("InvalidOptionLength")
             ELSE Ok([field |-> buf[idx + 1] + 13, idx |-> idx + 1])
      [] nib = 14 ->
             IF idx + 1 >= Len(buf) THEN Err("InvalidOptionLength")
             ELSE IF be_u16_at(buf, idx) + 269 > 65535
             THEN Err("InvalidOptionDelta")
             ELSE Ok([field |-> be_u16_at(buf, idx) + 269, idx |-> idx + 2])
      [] nib = 15 -> Err("InvalidOptionDelta")
      [] OTHER -> Ok([field |-> nib, idx |-> idx])

\* The match on the length nibble in Packet::from_bytes.
read_length(buf, nib, idx) ==
    CASE nib = 13 ->
             IF idx >= Len(buf) THEN Err("InvalidOptionLength")
             ELSE Ok([field |-> buf[idx + 1] + 13, idx |-> idx + 1])
      [] nib = 14 ->
             IF idx + 1 >= Len(buf) THEN Err("InvalidOptionLength")
             ELSE IF be_u16_at(buf, idx) + 269 > 65535
             THEN Err("InvalidOptionLength")
             ELSE Ok([field |-> be_u16_at(buf, idx) + 269, idx |-> idx + 2])
      [] nib = 15 -> Err("InvalidOptionLength")
      [] OTHER -> Ok([field |-> nib, idx |-> idx])

\* push_option that keeps only the first value of an option number.
push_option_first(options, number, value) ==
    IF number \in DOMAIN options THEN options
    ELSE map_insert(options, number, <<value>>)

\* options.entry(number).or_default().push_back(value)
push_option(options, number, value) ==
    IF number \in DOMAIN options
    THEN [options EXCEPT ![number] = Append(@, value)]
    ELSE map_insert(options, number, <<value>>)

RECURSIVE read_options(_, _, _, _)
\* The while loop of Packet::from_bytes: the options and the index where the
\* loop ends, or the error.
read_options(buf, idx, options_number, options) ==
    IF ~(idx < Len(buf)) \/ buf[idx + 1] = 255
    THEN Ok([options |-> options, idx |-> idx])
    ELSE LET byte == buf[idx + 1]
             delta == read_delta(buf, byte \div 16, idx + 1)
         IN  IF ~delta.ok THEN delta
             ELSE LET length == read_length(buf, byte % 16, delta.v.idx)
                  IN  IF ~length.ok THEN length
                      ELSE IF options_number + delta.v.field > 65535
                      THEN Err("InvalidOptionDelta")
                      ELSE IF length.v.idx + length.v.field > Len(buf)
                      THEN Err("InvalidOptionLength")
                      ELSE read_options(
                               buf,
                               length.v.idx + length.v.field,
                               options_number + delta.v.field,
                               push_option(
                                   options,
                                   options_number + delta.v.field,
                                   slice(buf, length.v.idx,
                                         length.v.idx + length.v.field)))

\* HeaderRaw::try_from and Header::from_raw, for a buffer of 4 bytes or more
header_from_bytes(buf) ==
    [ver_type_tkl |-> buf[1], code |-> class_from_u8(buf[2]),
     message_id |-> buf[3] * 256 + buf[4]]

\* Packet::from_bytes
from_bytes(buf) ==
    IF Len(buf) < 4 THEN Err("InvalidHeader")
    ELSE LET header == header_from_bytes(buf)
             token_length == header_get_token_length(header)
             options_start == 4 + token_length
         IN  IF token_length > 8 THEN Err("InvalidTokenLength")
             ELSE IF options_start > Len(buf) THEN Err("InvalidTokenLength")
             ELSE LET read == read_options(buf, options_start, 0, <<>>)
                  IN  IF ~read.ok THEN read
                      ELSE Ok([header |-> header,
                               token |-> slice(buf, 4, options_start),
                               options |-> read.v.options,
                               payload |->
                                   IF read.v.idx < Len(buf)
                                   THEN slice(buf, read.v.idx + 1, Len(buf))
                                   ELSE <<>>])

\* ========================================================== option value

\* option_from_uint for the two bytes of OptionValueU16
option_from_u16(value) ==
    IF value = 0 THEN <<>>
    ELSE IF value < 256 THEN <<value>>
    ELSE <<value \div 256, value % 256>>

\* option_to_uint for the two bytes of OptionValueU16
option_to_u16(bytes) ==
    IF Len(bytes) > 2 THEN Err("IncompatibleOptionValueFormat")
    ELSE Ok(CASE Len(bytes) = 0 -> 0
              [] Len(bytes) = 1 -> bytes[1]
              [] OTHER -> bytes[1] * 256 + bytes[2])

\* String::from_utf8 in TryFrom<Vec<u8>> for OptionValueString. ASCII is
\* UTF-8; the only other byte the inputs of this model hold is 0xFF, which
\* no UTF-8 string contains.
from_utf8(bytes) ==
    IF \A i \in 1..Len(bytes) : bytes[i] < 128 THEN Ok(bytes)
    ELSE Err("IncompatibleOptionValueFormat")

\* ========================================================== block value

UriPath == 11

Block2 == 23

Block1 == 27

\* BlockValue::largest_power_of_2_not_in_excess, for targets below 2^30
largest_power_of_2_not_in_excess(target) ==
    IF target = 0 THEN None
    ELSE Some((CHOOSE i \in 0..30 :
                   /\ 2^i > target
                   /\ \A j \in 0..(i - 1) : ~(2^j > target)) - 1)

\* BlockValue::new
new_block_value(num, more, size) ==
    LET true_size_exponent == largest_power_of_2_not_in_excess(size)
    IN  IF ~is_some(true_size_exponent)
        THEN Err("SizeExponentEncodingError")
        ELSE LET size_exponent ==
                     IF unwrap(true_size_exponent) < 4 THEN 0
                     ELSE unwrap(true_size_exponent) - 4
             IN  IF size_exponent > 7 THEN Err("SizeExponentEncodingError")
                 ELSE IF num > 65535 THEN Err("TypeBoundsError")
                 ELSE Ok([num |-> num, more |-> more,
                          size_exponent |-> size_exponent])

\* BlockValue::size
block_size(block) == 2^(block.size_exponent + 4)

\* From<BlockValue> for Vec<u8>; num << 4 is a u16 shift
block_to_bytes(block) ==
    option_from_u16(((block.num * 16) % 65536)
                    + (IF block.more THEN 8 ELSE 0)
                    + (block.size_exponent % 8))

\* TryFrom<Vec<u8>> for BlockValue
block_from_bytes(value) ==
    LET scalar == option_to_u16(value)
    IN  IF ~scalar.ok THEN scalar
        ELSE Ok([num |-> scalar.v \div 16,
                 more |-> (scalar.v \div 8) % 2 = 1,
                 size_exponent |-> scalar.v % 8])

\* get_first_option_as::<BlockValue>(tp).and_then(|x| x.ok())
first_block_option(packet, tp) ==
    LET first == get_first_option(packet, tp)
    IN  IF ~is_some(first) THEN None
        ELSE IF block_from_bytes(unwrap(first)).ok
        THEN Some(block_from_bytes(unwrap(first)).v)
        ELSE None

\* ====================================================== request, response

\* CoapResponse::new
new_response(request) ==
    LET request_type == header_get_type(request.header)
        response_type == IF request_type = "Confirmable"
                         THEN "Acknowledgement" ELSE "NonConfirmable"
        header == [header_set_type(header_set_version(default_header, 1),
                                   response_type)
                      EXCEPT !.code = Response("Content"),
                             !.message_id = request.header.message_id]
    IN  IF request_type \notin {"Confirmable", "NonConfirmable"} THEN None
        ELSE Some([set_token([new_packet EXCEPT !.header = header],
                             request.token)
                      EXCEPT !.payload = request.payload])

\* CoapRequest::from_packet
from_packet(packet, source) ==
    [message |-> packet, response |-> new_response(packet),
     source |-> Some(source)]

\* CoapRequest::get_method, over the RequestType of header.rs
get_method(request) ==
    IF request.message.header.code
           \in {Request("Get"), Request("Post"), Request("Put"),
                Request("Delete")}
    THEN request.message.header.code[2]
    ELSE "UnKnown"

\* CoapRequest::get_path_as_vec
get_path_as_vec(request) ==
    LET paths == get_option(request.message, UriPath)
    IN  IF ~is_some(paths) THEN Ok(<<>>)
        ELSE IF \A i \in 1..Len(unwrap(paths)) : from_utf8(unwrap(paths)[i]).ok
        THEN Ok(unwrap(paths))
        ELSE Err("IncompatibleOptionValueFormat")

\* ========================================================= block handler

\* The option Content-Format
ContentFormat == 12

\* ContentFormat::TextPlain, as its number
TextPlain == 0

\* ContentFormat::ApplicationJSON, as its number
ApplicationJSON == 50

\* The numbers that TryFrom<usize> for ContentFormat names.
ContentFormatNumbers ==
    {0, 16, 17, 18, 19, 21, 22, 23, 40, 41, 42, 47, 50, 51, 52, 60, 61, 62,
     63, 96, 97, 98, 101, 102, 110, 111, 112, 113, 114, 115, 140, 256, 271,
     272, 280, 281, 284, 285, 286, 287, 290, 291, 310, 311, 320, 322, 340,
     341, 432, 836, 10000, 10001, 10002, 11050, 11060, 11542, 11543, 11544,
     20000, 30000}

\* Packet::set_content_format, with the format as its number
set_content_format(packet, cf) ==
    add_option(packet, ContentFormat, option_from_u16(cf))

\* Packet::get_content_format, with the format as its number
get_content_format(packet) ==
    LET first == get_first_option(packet, ContentFormat)
    IN  IF ~is_some(first) THEN None
        ELSE IF ~option_to_u16(unwrap(first)).ok THEN None
        ELSE IF option_to_u16(unwrap(first)).v \in ContentFormatNumbers
        THEN Some(option_to_u16(unwrap(first)).v)
        ELSE None

\* HandlingError::not_handled(); the message is "Not handled"
not_handled ==
    [code |-> None,
     message |-> <<78, 111, 116, 32, 104, 97, 110, 100, 108, 101, 100>>]

\* HandlingError::with_code(code, e), with the message as its bytes
with_code(code, e) == [code |-> Some(code), message |-> e]

\* The replaced response message of CoapRequest::apply_from_error
error_reply(packet, code, text) ==
    [set_content_format([packet EXCEPT !.header.code = Response(code)],
                        TextPlain)
        EXCEPT !.payload = text]

\* CoapRequest::apply_from_error: the returned bool and the request
apply_from_error(request, error) ==
    IF is_some(request.response) /\ is_some(error.code)
    THEN [result |-> TRUE,
          request |-> [request EXCEPT
                          !.response = Some(error_reply(unwrap(@),
                                                        unwrap(error.code),
                                                        error.message))]]
    ELSE [result |-> FALSE, request |-> request]

BLOCK_OPTIONS_MAX_LENGTH == 12

MAXIMUM_UNCOMMITTED_BUFFER_RESERVE_LENGTH == 16384

DEFAULT_MAX_TOTAL_MESSAGE_SIZE == 1152

\* From<&CoapRequest<Endpoint>> for RequestCacheKey
request_cache_key(request) ==
    <<u8_from_class(Request(get_method(request))),
      IF get_path_as_vec(request).ok THEN get_path_as_vec(request).v ELSE <<>>,
      request.source>>

\* BlockState::default()
default_block_state ==
    [last_request_block2 |-> None, cached_response |-> None,
     cached_request_payload |-> None]

\* states.entry(key).or_insert(BlockState::default())
state_entry(map, key) ==
    IF key \in DOMAIN map THEN map[key] ELSE default_block_state

\* What a handler leaves behind: its Result, the request and the BlockState.
step(result, request, state) ==
    [result |-> result, request |-> request, state |-> state]

\* size_sans_payload + packet.payload.len() in
\* BlockHandler::compute_message_size_hack; the expect panics when the
\* message without its payload does not encode.
size_with_payload(sans_payload, payload) ==
    IF ~sans_payload.ok THEN Err("panic")
    ELSE Ok(Len(sans_payload.v) + Len(payload))

\* BlockHandler::compute_message_size_hack
compute_message_size_hack(packet) ==
    size_with_payload(to_bytes([packet EXCEPT !.payload = <<>>]),
                      packet.payload)

\* min of core::cmp
min(a, b) == IF a <= b THEN a ELSE b

\* The block that BlockHandler::negotiate_block_size_if_necessary answers a
\* requested block with; the division panics when the negotiated size is 0.
negotiated_block(requested, negotiated_block_size, total_payload_size) ==
    IF negotiated_block_size = 0 THEN Err("panic")
    ELSE new_block_value(
             (requested.num * block_size(requested))
                 \div negotiated_block_size,
             (requested.num * block_size(requested)) + negotiated_block_size
                 < total_payload_size,
             negotiated_block_size)

\* The match on request_block in
\* BlockHandler::negotiate_block_size_if_necessary: an Option of a Result.
maybe_response_block(request_block, max_block_size, total_payload_size) ==
    IF is_some(request_block)
    THEN Some(negotiated_block(unwrap(request_block),
                               min(block_size(unwrap(request_block)),
                                   max_block_size),
                               total_payload_size))
    ELSE IF total_payload_size < max_block_size THEN None
    ELSE Some(new_block_value(0, TRUE, max_block_size))

\* The match on maybe_response_block, with
\* block.map(Some).map_err(HandlingError::internal)
map_some(maybe_block) ==
    IF ~is_some(maybe_block) THEN Ok(None)
    ELSE IF unwrap(maybe_block).ok THEN Ok(Some(unwrap(maybe_block).v))
    ELSE IF unwrap(maybe_block).e = "panic" THEN Err("panic")
    ELSE Err("internal")

\* BlockHandler::negotiate_block_size_if_necessary
negotiate_block_size_if_necessary(request_block, message_size, total_payload_size, max_total_message_size) ==
    IF max_total_message_size
           < (message_size + BLOCK_OPTIONS_MAX_LENGTH) - total_payload_size
    THEN Err("internal")
    ELSE map_some(maybe_response_block(
                      request_block,
                      max_total_message_size
                          - ((message_size + BLOCK_OPTIONS_MAX_LENGTH)
                                 - total_payload_size),
                      total_payload_size))

\* negotiate_block_size_if_necessary on the Result of
\* compute_message_size_hack
negotiate(request_block, message_size, total_payload_size, max_total_message_size) ==
    IF ~message_size.ok THEN message_size
    ELSE negotiate_block_size_if_necessary(
             request_block, message_size.v, total_payload_size,
             max_total_message_size)

\* dst.splice(start..end, replace_with)
splice(dst, start, end, replace_with) ==
    SubSeq(dst, 1, start) \o replace_with \o SubSeq(dst, end + 1, Len(dst))

\* extending_splice without the limit on the extension.
extending_splice_unlimited(dst, start, end, replace_with, maximum_reserve_len) ==
    IF end >= Len(dst)
    THEN Ok(splice(dst \o [i \in 1..(end - Len(dst)) |-> 0], start, end,
                   replace_with))
    ELSE Ok(splice(dst, start, end, replace_with))

\* extending_splice with the range start..end
extending_splice(dst, start, end, replace_with, maximum_reserve_len) ==
    IF end >= Len(dst) /\ end - Len(dst) > maximum_reserve_len
    THEN Err("internal")
    ELSE IF end >= Len(dst)
    THEN Ok(splice(dst \o [i \in 1..(end - Len(dst)) |-> 0], start, end,
                   replace_with))
    ELSE Ok(splice(dst, start, end, replace_with))

\* The options of dst after set_option for every option of src.
set_options_of(dst, src) ==
    [n \in DOMAIN dst \cup DOMAIN src |->
         IF n \in DOMAIN src THEN src[n] ELSE dst[n]]

\* packet_clone_limited with the message id copied as well.
packet_clone_with_id(dst, src) ==
    LET header == [header_set_type(
                       header_set_version(dst.header,
                                          header_get_version(src.header)),
                       header_get_type(src.header))
                      EXCEPT !.code = src.header.code,
                             !.message_id = src.header.message_id]
    IN  [set_token([dst EXCEPT !.header = header], src.token)
            EXCEPT !.options = set_options_of(dst.options, src.options)]

\* BlockHandler::packet_clone_limited
packet_clone_limited(dst, src) ==
    LET header == [header_set_type(
                       header_set_version(dst.header,
                                          header_get_version(src.header)),
                       header_get_type(src.header))
                      EXCEPT !.code = src.header.code]
    IN  [set_token([dst EXCEPT !.header = header], src.token)
            EXCEPT !.options = set_options_of(dst.options, src.options)]

\* has_more_chunks with a chunk that ends the payload counted as followed.
has_more_chunks_inclusive(cached_payload, request_block2) ==
    (request_block2.num + 1) * block_size(request_block2)
        <= Len(cached_payload)

\* chunks.next().is_some() after the requested chunk, in
\* BlockHandler::maybe_serve_cached_response
has_more_chunks(cached_payload, request_block2) ==
    (request_block2.num + 1) * block_size(request_block2)
        < Len(cached_payload)

\* The response BlockHandler::maybe_serve_cached_response makes of the
\* clone, the chunk and the Block2 option.
served_response(cloned, cached_payload, request_block2) ==
    set_option(
        [cloned EXCEPT
            !.payload =
                slice(cached_payload,
                      request_block2.num * block_size(request_block2),
                      min((request_block2.num + 1)
                              * block_size(request_block2),
                          Len(cached_payload)))],
        Block2,
        <<block_to_bytes(
              [request_block2 EXCEPT
                  !.more = has_more_chunks(cached_payload, request_block2)])>>)

\* BlockHandler::maybe_serve_cached_response: the Result and the request.
maybe_serve_cached_response(request, request_block2, cached_response) ==
    IF ~is_some(request.response)
    THEN [result |-> Err("not_handled"), request |-> request]
    ELSE IF ~(request_block2.num * block_size(request_block2)
                  < Len(cached_response.payload))
    THEN [result |-> Err("bad_request"),
          request |->
              [request EXCEPT
                  !.response = Some(packet_clone_limited(unwrap(@),
                                                         cached_response))]]
    ELSE [result |-> Ok(has_more_chunks(cached_response.payload,
                                        request_block2)),
          request |->
              [request EXCEPT
                  !.response =
                      Some(served_response(
                               packet_clone_limited(unwrap(@),
                                                    cached_response),
                               cached_response.payload, request_block2))]]

\* The Block1 option and the code of a response that short-circuits.
block1_response(response, response_block1, code) ==
    [add_option(response, Block1, block_to_bytes(response_block1))
        EXCEPT !.header.code = code]

\* BlockHandler::maybe_handle_request_block1 after extending_splice, in the
\* arm (Some(request_block1), Some(response_block1))
after_splice(request, state, cached_payload, spliced, more, response_block1) ==
    IF ~spliced.ok
    THEN step(Err("internal"), request,
              [state EXCEPT !.cached_request_payload = Some(cached_payload)])
    ELSE IF more /\ ~is_some(request.response)
    THEN step(Err("not_handled"), request,
              [state EXCEPT !.cached_request_payload = Some(spliced.v)])
    ELSE IF more
    THEN step(Ok(TRUE),
              [request EXCEPT
                  !.response = Some(block1_response(unwrap(@), response_block1,
                                                    Response("Continue")))],
              [state EXCEPT !.cached_request_payload = Some(spliced.v)])
    ELSE IF ~is_some(request.response)
    THEN step(Err("not_handled"),
              [request EXCEPT !.message.payload = spliced.v],
              [state EXCEPT !.cached_request_payload = None])
    ELSE step(Ok(FALSE),
              [request EXCEPT
                  !.message.payload = spliced.v,
                  !.response = Some(add_option(
                                        unwrap(@), Block1,
                                        block_to_bytes(response_block1)))],
              [state EXCEPT !.cached_request_payload = None])

\* state.cached_request_payload, made Some(Vec::new()) if it is None
request_payload_buffer(state) ==
    IF is_some(state.cached_request_payload)
    THEN unwrap(state.cached_request_payload) ELSE <<>>

\* The arm (Some(request_block1), Some(response_block1)) of
\* BlockHandler::maybe_handle_request_block1.
handle_block1_chunk(request, state, request_block1, response_block1) ==
    after_splice(
        request, state, request_payload_buffer(state),
        extending_splice(
            request_payload_buffer(state),
            request_block1.num * block_size(request_block1),
            (request_block1.num * block_size(request_block1))
                + block_size(request_block1),
            request.message.payload,
            MAXIMUM_UNCOMMITTED_BUFFER_RESERVE_LENGTH),
        request_block1.more, response_block1)

\* The match on (request_block1, maybe_response_block1) in
\* BlockHandler::maybe_handle_request_block1
match_block1(request, state, request_block1, negotiated) ==
    IF ~negotiated.ok THEN step(negotiated, request, state)
    ELSE IF ~is_some(negotiated.v) THEN step(Ok(FALSE), request, state)
    ELSE IF is_some(request_block1)
    THEN handle_block1_chunk(request, state, unwrap(request_block1),
                             unwrap(negotiated.v))
    ELSE IF ~is_some(request.response)
    THEN step(Err("not_handled"), request, state)
    ELSE step(Ok(TRUE),
              [request EXCEPT
                  !.response =
                      Some(block1_response(
                               unwrap(@), unwrap(negotiated.v),
                               Response("RequestEntityTooLarge")))],
              state)

\* BlockHandler::maybe_handle_request_block1
maybe_handle_request_block1(request, max_total_message_size, state) ==
    match_block1(
        request, state, first_block_option(request.message, Block1),
        negotiate(first_block_option(request.message, Block1),
                  compute_message_size_hack(request.message),
                  Len(request.message.payload), max_total_message_size))

\* after_cached_block without the reset of the cached response.
after_cached_block_kept(state, has_more) == state

\* The BlockState after BlockHandler::maybe_handle_request_block2 has served
\* a block of the cached response.
after_cached_block(state, has_more) ==
    IF has_more THEN state ELSE [state EXCEPT !.cached_response = None]

\* after_serve with the cached response dropped when serving fails.
after_serve_dropping(served, state) ==
    IF ~served.result.ok
    THEN step(served.result, served.request,
              [state EXCEPT !.cached_response = None])
    ELSE step(Ok(TRUE), served.request,
              after_cached_block(state, served.result.v))

\* BlockHandler::maybe_handle_request_block2 after
\* maybe_serve_cached_response
after_serve(served, state) ==
    IF ~served.result.ok THEN step(served.result, served.request, state)
    ELSE step(Ok(TRUE), served.request,
              after_cached_block(state, served.result.v))

\* BlockHandler::maybe_handle_request_block2 with the request's Block2
block2_handled(request, state, maybe_block2) ==
    IF ~(is_some(maybe_block2) /\ is_some(state.cached_response))
    THEN step(Ok(FALSE), request,
              [state EXCEPT !.last_request_block2 = maybe_block2])
    ELSE after_serve(
             maybe_serve_cached_response(request, unwrap(maybe_block2),
                                         unwrap(state.cached_response)),
             [state EXCEPT !.last_request_block2 = maybe_block2])

\* BlockHandler::maybe_handle_request_block2
maybe_handle_request_block2(request, state) ==
    block2_handled(request, state,
                   first_block_option(request.message, Block2))

\* BlockHandler::intercept_request after maybe_handle_request_block1
after_block1(block1) ==
    IF ~block1.result.ok \/ block1.result.v THEN block1
    ELSE maybe_handle_request_block2(block1.request, block1.state)

\* BlockHandler::intercept_request on the state of the request's key
intercept_request_on(request, max_total_message_size, state) ==
    after_block1(maybe_handle_request_block1(request, max_total_message_size,
                                             state))

\* BlockHandler::intercept_response after maybe_serve_cached_response
after_first_block(served, state, cached_response) ==
    IF ~served.result.ok THEN step(served.result, served.request, state)
    ELSE IF served.result.v
    THEN step(Ok(TRUE), served.request,
              [state EXCEPT !.cached_response = Some(cached_response)])
    ELSE step(Ok(FALSE), served.request, state)

\* BlockHandler::intercept_response after
\* negotiate_block_size_if_necessary
after_negotiation(request, state, negotiated) ==
    IF ~negotiated.ok THEN step(negotiated, request, state)
    ELSE IF ~is_some(negotiated.v) THEN step(Ok(FALSE), request, state)
    ELSE after_first_block(
             maybe_serve_cached_response(request, unwrap(negotiated.v),
                                         unwrap(request.response)),
             state, unwrap(request.response))

\* intercept_response_on without the check for a Block2 option that the
\* application has put into the response.
intercept_response_on_any(request, max_total_message_size, state) ==
    IF ~is_some(request.response) THEN step(Ok(FALSE), request, state)
    ELSE after_negotiation(
             request, state,
             negotiate(state.last_request_block2,
                       compute_message_size_hack(unwrap(request.response)),
                       Len(unwrap(request.response).payload),
                       max_total_message_size))

\* BlockHandler::intercept_response on the state of the request's key
intercept_response_on(request, max_total_message_size, state) ==
    IF ~is_some(request.response) THEN step(Ok(FALSE), request, state)
    ELSE IF is_some(get_option(unwrap(request.response), Block2))
    THEN step(Ok(FALSE), request, state)
    ELSE after_negotiation(
             request, state,
             negotiate(state.last_request_block2,
                       compute_message_size_hack(unwrap(request.response)),
                       Len(unwrap(request.response).payload),
                       max_total_message_size))

\* BlockHandler::new before any call; no request is with the application.
block_idle ==
    /\ config = DEFAULT_MAX_TOTAL_MESSAGE_SIZE
    /\ states = <<>>
    /\ forwarded = None
    /\ outcome = [call |-> "new"]
    /\ transfer = <<>>
    /\ upload = <<>>
    /\ final_served = {}
    /\ latest = <<>>

\* ================================================================ observe

RECURSIVE join(_)
\* [&str]::join("/")
join(segs) ==
    IF Len(segs) = 0 THEN ""
    ELSE IF Len(segs) = 1 THEN segs[1]
    ELSE segs[1] \o "/" \o join(Tail(segs))

\* CoapRequest::get_path; the request's UriPath values are UTF-8 strings here.
get_path(request) == join(request.uri_path)

\* Iterator::position and Iterator::find: the first of the indices that
\* satisfy the closure, 0 for None.
position(matching) ==
    IF matching = {} THEN 0
    ELSE CHOOSE i \in matching : \A j \in matching : i <= j

\* Vec::remove
remove_at(s, i) == SubSeq(s, 1, i - 1) \o SubSeq(s, i + 1, Len(s))

new_resource == [observers |-> <<>>, sequence |-> 0]

\* Mutant of entry_or_insert: insert, which resets a resource that exists.
entry_insert(map, path) ==
    [p \in DOMAIN map \cup {path} |->
        IF p = path THEN new_resource ELSE map[p]]

\* BTreeMap::entry(path).or_insert(Resource { observers: [], sequence: 0 })
entry_or_insert(map, path) ==
    IF path \in DOMAIN map THEN map
    ELSE [p \in DOMAIN map \cup {path} |->
             IF p = path THEN new_resource ELSE map[p]]

\* Mutant of register_observers: push without looking for the endpoint.
register_observers_push(observers, observer) == Append(observers, observer)

\* The observer list of a resource after Subject::register.
register_observers(observers, observer) ==
    LET pos == position({i \in 1..Len(observers) :
                            observers[i].endpoint = observer.endpoint})
    IN  IF pos # 0 THEN [observers EXCEPT ![pos] = observer]
        ELSE Append(observers, observer)

\* Subject::register, with the history the specification keeps in `last`
register_noting(request, note) ==
    LET observer_endpoint == unwrap(request.source)
        resource_path == get_path(request)
        observer == [endpoint |-> observer_endpoint,
                     token |-> request.token,
                     unacknowledged_messages |-> 0,
                     message_id |-> None]
        inserted == entry_or_insert(resources, resource_path)
    IN  /\ ~panicked
        /\ resources' =
               [inserted EXCEPT ![resource_path].observers =
                    register_observers(@, observer)]
        /\ changes' = IF resource_path \in DOMAIN resources THEN changes
                      ELSE [changes EXCEPT ![resource_path] = 0]
        /\ last' = note
        /\ UNCHANGED <<unacknowledged_limit, panicked, non_observe_vars>>

\* Subject::register
register(request) ==
    register_noting(request, [op |-> "register", arg |-> <<>>])

\* The observer list of a resource after Subject::deregister.
deregister_observers(observers, endpoint, token) ==
    LET pos == position({i \in 1..Len(observers) :
                            /\ observers[i].endpoint = endpoint
                            /\ observers[i].token = token})
    IN  IF pos # 0 THEN remove_at(observers, pos) ELSE observers

\* Subject::deregister
deregister(request) ==
    LET observer_endpoint == unwrap(request.source)
        resource_path == get_path(request)
    IN  /\ ~panicked
        /\ resources' =
               IF resource_path \in DOMAIN resources
               THEN [resources EXCEPT ![resource_path].observers =
                         deregister_observers(@, observer_endpoint,
                                              request.token)]
               ELSE resources
        /\ last' = [op |-> "deregister", arg |-> <<>>]
        /\ UNCHANGED <<unacknowledged_limit, panicked, changes, non_observe_vars>>

\* observer.unacknowledged_messages += 1; observer.message_id = Some(id),
\* with the u8 addition wrapping (a build without overflow checks).
notified(observer, message_id) ==
    [observer EXCEPT
        !.unacknowledged_messages = (@ + 1) % (U8_MAX + 1),
        !.message_id = Some(message_id)]

\* retained with the limit itself counted as exceeded.
retained_below(observer, limit) ==
    /\ is_some(observer.message_id)
    /\ observer.unacknowledged_messages < limit

\* The predicate of observers.retain in Subject::resource_changed.
retained(observer, limit) ==
    /\ is_some(observer.message_id)
    /\ observer.unacknowledged_messages <= limit

\* The closure of and_modify in Subject::resource_changed, run to its end.
changed_resource(resource, message_id, limit) ==
    LET bumped == [i \in 1..Len(resource.observers) |->
                      notified(resource.observers[i], message_id)]
    IN  [observers |-> SelectSeq(bumped, LAMBDA o : retained(o, limit)),
         sequence |-> resource.sequence + 1]

\* The same closure in a build with overflow checks, when the u8 addition of
\* observer number `at` overflows: the observers before it are updated, nothing
\* is removed.
changed_resource_panic(resource, message_id, at) ==
    [observers |-> [i \in 1..Len(resource.observers) |->
                       IF i < at
                       THEN notified(resource.observers[i], message_id)
                       ELSE resource.observers[i]],
     sequence |-> resource.sequence + 1]

\* Subject::resource_changed, with the history the specification keeps in
\* `last`. An overflowing u8 addition either wraps or panics, depending on
\* the build.
resource_changed_noting(resource, message_id, note) ==
    LET at == IF resource \in DOMAIN resources
              THEN position({i \in 1..Len(resources[resource].observers) :
                                resources[resource].observers[i]
                                    .unacknowledged_messages = U8_MAX})
              ELSE 0
    IN  /\ ~panicked
        /\ last' = note
        /\ changes' = IF resource \in DOMAIN resources
                      THEN [changes EXCEPT ![resource] = @ + 1]
                      ELSE changes
        /\ UNCHANGED <<unacknowledged_limit, non_observe_vars>>
        /\ \/ /\ resources' =
                     IF resource \in DOMAIN resources
                     THEN [resources EXCEPT ![resource] =
                               changed_resource(@, message_id,
                                                unacknowledged_limit)]
                     ELSE resources
              /\ UNCHANGED panicked
           \/ /\ at # 0
              /\ resources' = [resources EXCEPT ![resource] =
                                  changed_resource_panic(@, message_id, at)]
              /\ panicked' = TRUE

\* Subject::resource_changed
resource_changed(resource, message_id) ==
    resource_changed_noting(resource, message_id,
                            [op |-> "resource_changed", arg |-> <<>>])

\* Mutant of ack_matches: the message id is not compared.
ack_matches_endpoint(x, observer_endpoint, message_id) ==
    /\ is_some(x.message_id)
    /\ x.endpoint = observer_endpoint

\* The closure of find in Subject::acknowledge.
ack_matches(x, observer_endpoint, message_id) ==
    /\ is_some(x.message_id)
    /\ x.endpoint = observer_endpoint
    /\ unwrap(x.message_id) = message_id

\* The observer list of one resource after Subject::acknowledge.
acknowledge_observers(observers, observer_endpoint, message_id) ==
    LET pos == position({i \in 1..Len(observers) :
                            ack_matches(observers[i], observer_endpoint,
                                        message_id)})
    IN  IF pos # 0
        THEN [observers EXCEPT ![pos].unacknowledged_messages = 0,
                               ![pos].message_id = None]
        ELSE observers

\* Subject::acknowledge, with the history the specification keeps in `last`
acknowledge_noting(request, note) ==
    LET observer_endpoint == unwrap(request.source)
        message_id == request.message_id
    IN  /\ ~panicked
        /\ resources' =
               [p \in DOMAIN resources |->
                   [resources[p] EXCEPT !.observers =
                        acknowledge_observers(@, observer_endpoint,
                                              message_id)]]
        /\ last' = note
        /\ UNCHANGED <<unacknowledged_limit, panicked, changes, non_observe_vars>>

\* Subject::acknowledge
acknowledge(request) ==
    acknowledge_noting(request,
                       [op |-> "acknowledge",
                        arg |-> <<unwrap(request.source), request.message_id>>])

\* Subject::set_unacknowledged_limit, with the history the specification
\* keeps in `last`
set_unacknowledged_limit_noting(limit, note) ==
    /\ ~panicked
    /\ unacknowledged_limit' = limit
    /\ last' = note
    /\ UNCHANGED <<resources, panicked, changes, non_observe_vars>>

\* Subject::set_unacknowledged_limit
set_unacknowledged_limit(limit) ==
    set_unacknowledged_limit_noting(
        limit, [op |-> "set_unacknowledged_limit", arg |-> <<>>])

\* ------------------------------------------------- observe: specification

ObserveEndpoints == {"10.0.0.1", "10.0.0.2"}

ObserveUriPaths == {<<"temp">>, <<"a", "b">>}

ObserveResources == {get_path([uri_path |-> u]) : u \in ObserveUriPaths}

ObserveMessageIds == {1, 2}

ObserveLimits == {0, 1}

observe_request(endpoint, uri_path, token, message_id) ==
    [source |-> Some(endpoint), uri_path |-> uri_path, token |-> token,
     message_id |-> message_id]

\* The GET requests with Observe that clients send: the first endpoint observes
\* both resources and renews its registration of the first with a new token,
\* the second endpoint observes the first resource.
ObserveRequests ==
    {observe_request("10.0.0.1", <<"temp">>, <<0, 0>>, 7),
     observe_request("10.0.0.1", <<"temp">>, <<255, 255>>, 8),
     observe_request("10.0.0.2", <<"temp">>, <<0, 0>>, 7),
     observe_request("10.0.0.1", <<"a", "b">>, <<0, 0>>, 9)}

\* The acknowledgements that arrive: any endpoint, any message id, a token
\* that is or is not the one of the registration.
AckRequests ==
    {observe_request(e, <<>>, t, m) :
        e \in ObserveEndpoints, t \in {<<>>, <<0, 0>>},
        m \in ObserveMessageIds}

\* The bound on a run: the resource, if registered, has been changed fewer
\* than cap times.
sequence_below(resource, cap) ==
    resource \in DOMAIN resources => resources[resource].sequence < cap

\* Subject::default()
new_subject ==
    /\ resources = <<>>
    /\ unacknowledged_limit = DEFAULT_UNACKNOWLEDGED_LIMIT
    /\ last = [op |-> "new", arg |-> <<>>]
    /\ changes = [p \in ObserveResources |-> 0]

\* No message is being encoded or decoded.
codec_idle ==
    /\ message = new_packet
    /\ encoded = None
    /\ decoded = None

InitObserve ==
    /\ new_subject
    /\ codec_idle
    /\ block_idle
    /\ panicked = FALSE

NextObserve ==
    \/ \E r \in ObserveRequests : register(r)
    \/ \E r \in ObserveRequests : deregister(r)
    \/ \E p \in ObserveResources, m \in ObserveMessageIds :
           sequence_below(p, MaxSequence) /\ resource_changed(p, m)
    \/ \E r \in AckRequests : acknowledge(r)
    \/ \E l \in ObserveLimits : set_unacknowledged_limit(l)

SpecObserve == InitObserve /\ [][NextObserve]_vars

\* ------------------------------------------ observe: age-out specification

\* One observer of one resource, none or all of whose notifications it
\* acknowledges, under limits up to the largest u8.
AgeOutLimits == {0, 5, U8_MAX}

AgeOutRequest == observe_request("10.0.0.1", <<"temp">>, <<0, 0>>, 1)

NextAgeOut ==
    \/ register(AgeOutRequest)
    \/ deregister(AgeOutRequest)
    \/ sequence_below("temp", MaxAgeOutSequence) /\ resource_changed("temp", 1)
    \/ acknowledge(AgeOutRequest)
    \/ \E l \in AgeOutLimits : set_unacknowledged_limit(l)

SpecAgeOut == InitObserve /\ [][NextAgeOut]_vars

\* ========================================================== claims: observe

\* C7: a resource's sequence is 0 when the resource is first registered, grows
\* by exactly 1 on each resource_changed for its path and is left alone by
\* register, deregister and acknowledge: it always equals the number of
\* resource_changed calls made for the path since the resource exists.
C7_SequenceCountsChanges ==
    \A p \in DOMAIN resources : resources[p].sequence = changes[p]

\* C7 witness: a resource changed at least twice, then registered to again.
C7_Witness ==
    /\ last.op = "register"
    /\ \E p \in DOMAIN resources :
           resources[p].sequence >= 2 /\ Len(resources[p].observers) = 2

endpoints_of(observers) == {observers[i].endpoint : i \in 1..Len(observers)}

NoDuplicateEndpoints(map) ==
    \A p \in DOMAIN map :
        Cardinality(endpoints_of(map[p].observers)) = Len(map[p].observers)

observers_at(map, path) ==
    IF path \in DOMAIN map THEN map[path].observers ELSE <<>>

fresh_observer(request) ==
    [endpoint |-> unwrap(request.source), token |-> request.token,
     unacknowledged_messages |-> 0, message_id |-> None]

\* What C9 says of one register step.
C9_RegisterEffect(request) ==
    LET old == observers_at(resources, get_path(request))
        new == observers_at(resources', get_path(request))
        fresh == fresh_observer(request)
    IN  IF fresh.endpoint \in endpoints_of(old)
        THEN /\ Len(new) = Len(old)
             /\ \A i \in 1..Len(old) :
                    new[i] = IF old[i].endpoint = fresh.endpoint
                             THEN fresh ELSE old[i]
        ELSE new = Append(old, fresh)

\* C9: register replaces the observer of the same endpoint on the path by one
\* with the new token, a zero unacknowledged count and no pending message id,
\* and appends a new observer when there is none; after every step no
\* resource holds two observers with the same endpoint.
C9_RegisterReplaces ==
    [][/\ \A r \in ObserveRequests : register(r) => C9_RegisterEffect(r)
       /\ NoDuplicateEndpoints(resources')]_vars

\* C9 witness: the first endpoint has registered again on "temp", with its
\* second token, and has replaced in place its observer, which stands before
\* the once notified observer of the second endpoint.
C9_Witness ==
    /\ last.op = "register"
    /\ DOMAIN resources = {"temp"}
    /\ Len(resources["temp"].observers) = 2
    /\ resources["temp"].observers[1] =
           [endpoint |-> "10.0.0.1", token |-> <<255, 255>>,
            unacknowledged_messages |-> 0, message_id |-> None]
    /\ resources["temp"].observers[2].endpoint = "10.0.0.2"
    /\ resources["temp"].observers[2].unacknowledged_messages = 1

\* What C10 says of one acknowledge step.
C10_AcknowledgeEffect(request) ==
    \A p \in DOMAIN resources :
        LET old == resources[p].observers
            new == resources'[p].observers
        IN  /\ Len(new) = Len(old)
            /\ \A i \in 1..Len(old) :
                   new[i] =
                       IF /\ old[i].endpoint = unwrap(request.source)
                          /\ old[i].message_id = Some(request.message_id)
                       THEN [old[i] EXCEPT !.unacknowledged_messages = 0,
                                           !.message_id = None]
                       ELSE old[i]

\* C10: acknowledge resets the unacknowledged count and clears the pending
\* message id of exactly the observers whose endpoint is the request's source
\* and whose pending message id is the request's message id, whatever the
\* request's token; every other observer is left as it was.
C10_AcknowledgeMatches ==
    [][\A r \in AckRequests : acknowledge(r) => C10_AcknowledgeEffect(r)]_vars

\* C10 witness: an acknowledgement of message 1 has reset one observer of a
\* resource and left alone an observer of the same endpoint, on another
\* resource, whose pending id is the newer notification 2.
C10_Witness ==
    /\ last.op = "acknowledge"
    /\ last.arg = <<"10.0.0.1", 1>>
    /\ \E p, q \in DOMAIN resources :
           /\ resources[p].sequence >= 1
           /\ \E i \in 1..Len(resources[p].observers) :
                  /\ resources[p].observers[i].endpoint = "10.0.0.1"
                  /\ resources[p].observers[i].unacknowledged_messages = 0
                  /\ resources[p].observers[i].message_id = None
           /\ \E i \in 1..Len(resources[q].observers) :
                  /\ resources[q].observers[i].endpoint = "10.0.0.1"
                  /\ resources[q].observers[i].unacknowledged_messages = 2
                  /\ resources[q].observers[i].message_id = Some(2)

\* What C8 says of one resource_changed step on a registered resource.
C8_ChangedEffect(resource, message_id) ==
    LET old == resources[resource].observers
        counted == [i \in 1..Len(old) |->
                       [old[i] EXCEPT
                           !.unacknowledged_messages = @ + 1,
                           !.message_id = Some(message_id)]]
    IN  resources'[resource].observers =
            SelectSeq(counted,
                      LAMBDA o : ~(o.unacknowledged_messages
                                       > unacknowledged_limit))

\* C8: resource_changed increments the unacknowledged count of every observer
\* of the resource and removes exactly the observers whose count then exceeds
\* the configured limit, for every limit in 0..255.
C8_RemovesAboveLimit ==
    [][\A p \in DOMAIN resources, m \in ObserveMessageIds :
           resource_changed(p, m) => C8_ChangedEffect(p, m)]_vars


\* ================================================================== codec

\* The most option numbers a message of the codec specification carries.
MaxOptionNumbers == 2

\* A value of n bytes whose first byte is the payload marker's 0xFF.
value_of_length(n) == [i \in 1..n |-> (254 + i) % 256]

\* Option numbers whose differences are the deltas 1, 12, 13, 257, 268, 269
\* and beyond.
CodecNumbers == {1, 13, 14, 258, 269, 270, 65535}

\* Value lists with the lengths 0, 1, 12, 13, 268 and 269.
CodecValueLists ==
    {<<value_of_length(0)>>,
     <<value_of_length(12), value_of_length(13)>>,
     <<value_of_length(269), value_of_length(1), value_of_length(268)>>}

CodecOptionMaps ==
    UNION {[numbers -> CodecValueLists] :
               numbers \in {n \in SUBSET CodecNumbers :
                                Cardinality(n) <= MaxOptionNumbers}}

CodecHeaders ==
    {<<"Confirmable", Request("Get"), 1>>,
     <<"Acknowledgement", Response("Content"), 43981>>,
     <<"Confirmable", Empty, 0>>,
     <<"NonConfirmable", Request("UnKnown"), 65535>>,
     <<"Reset", Reserved, 256>>}

CodecTokens == {<<>>, <<255, 2, 3, 4, 5, 6, 7, 8>>}

CodecPayloads == {<<>>, <<255, 1, 2>>}

\* A packet made with Packet::new(), the header's setters, set_token,
\* set_option for each number, and the public payload field.
build_packet(h, token, options, payload) ==
    LET typed == header_set_type(default_header, h[1])
        coded == [typed EXCEPT !.code = h[2], !.message_id = h[3]]
    IN  [set_token([new_packet EXCEPT !.header = coded], token)
            EXCEPT !.options = options, !.payload = payload]

CodecMessages ==
    {build_packet(h, t, o, p) :
         h \in CodecHeaders, t \in CodecTokens,
         o \in CodecOptionMaps, p \in CodecPayloads}

InitCodec ==
    /\ new_subject
    /\ panicked = FALSE
    /\ message \in CodecMessages
    /\ encoded = None
    /\ decoded = None
    /\ block_idle

\* The caller runs Packet::to_bytes on the message.
Encode ==
    /\ ~panicked
    /\ encoded = None
    /\ encoded' = Some(to_bytes(message))
    /\ UNCHANGED <<message, decoded, observe_vars, block_vars, panicked>>

\* The receiver runs Packet::from_bytes on the encoded bytes.
Decode ==
    /\ ~panicked
    /\ is_some(encoded) /\ unwrap(encoded).ok
    /\ decoded = None
    /\ decoded' = Some(from_bytes(unwrap(encoded).v))
    /\ UNCHANGED <<message, encoded, observe_vars, block_vars, panicked>>

NextCodec == Encode \/ Decode

SpecCodec == InitCodec /\ [][NextCodec]_vars

\* C3, as stated: for every message with a token of 0 to 8 bytes, non-empty
\* value lists and any payload, decoding the encoded message gives the message
\* back: the same header, token, payload and, per option number, the same
\* values in order.
C3_RoundTrip ==
    is_some(decoded) => unwrap(decoded) = Ok(message)

\* The code survives From<MessageClass> for u8 followed by From<u8> for
\* MessageClass: every code but Request(UnKnown) and Response(UnKnown).
code_has_byte(class) == class_from_u8(u8_from_class(class)) = class

\* C3, amended: the round trip holds for every such message that to_bytes
\* accepts, whose code survives the conversion to its byte and back, and that
\* is not an Empty message with a payload (to_bytes leaves that payload out).
C3_RoundTripNamedCode ==
    (/\ is_some(decoded)
     /\ code_has_byte(message.header.code)
     /\ (message.header.code = Empty => message.payload = <<>>))
        => unwrap(decoded) = Ok(message)

\* A GET with an 8-byte token, the options 1 and 65535 (a two-byte delta
\* extension), several values per option and a payload that starts with 0xFF
\* has been encoded and decoded, and came back equal.
C3_Witness ==
    /\ is_some(decoded)
    /\ unwrap(decoded) = Ok(message)
    /\ message.header.code = Request("Get")
    /\ Len(message.token) = 8
    /\ DOMAIN message.options = {1, 65535}
    /\ Len(message.options[1]) = 2
    /\ Len(message.options[65535]) = 3
    /\ message.payload = <<255, 1, 2>>

\* The (number, value) pairs of an option map in ascending number order, the
\* values of a number in list order.
RECURSIVE C4_Entries(_, _)
C4_Entries(options, keys) ==
    IF keys = {} THEN <<>>
    ELSE LET number == first_key(keys)
         IN  [i \in 1..Len(options[number]) |-> <<number, options[number][i]>>]
                 \o C4_Entries(options, keys \ {number})

\* The escape form of a delta or length field: the nibble and the extension.
C4_EscapeForm(field) ==
    CASE field \in 0..12 -> [nibble |-> field, ext |-> <<>>]
      [] field \in 13..268 -> [nibble |-> 13, ext |-> <<field - 13>>]
      [] OTHER -> [nibble |-> 14,
                   ext |-> <<(field - 269) \div 256, (field - 269) % 256>>]

\* The bytes of the i-th entry: the delta is taken from the entry before.
C4_EntryBytes(entries, i) ==
    LET before == IF i = 1 THEN 0 ELSE entries[i - 1][1]
        delta == C4_EscapeForm(entries[i][1] - before)
        length == C4_EscapeForm(Len(entries[i][2]))
    IN  <<delta.nibble * 16 + length.nibble>>
            \o delta.ext \o length.ext \o entries[i][2]

RECURSIVE C4_Concat(_, _)
C4_Concat(entries, i) ==
    IF i > Len(entries) THEN <<>>
    ELSE C4_EntryBytes(entries, i) \o C4_Concat(entries, i + 1)

\* The bytes between the token and the payload marker of an encoded message.
C4_OptionsOf(packet, bytes) ==
    LET start == 4 + Len(packet.token)
        tail == IF has_payload_marker(packet) THEN 1 + Len(packet.payload)
                ELSE 0
    IN  SubSeq(bytes, start + 1, Len(bytes) - tail)

\* C4: the encoder emits the options in ascending number order, each value
\* after a byte with the delta in the high nibble and the length in the low
\* nibble, both in the minimal escape form: 0..12 literal, 13..268 as nibble
\* 13 and one byte (field - 13), 269 and above as nibble 14 and two big-endian
\* bytes (field - 269).
C4_OptionEncoding ==
    (is_some(encoded) /\ unwrap(encoded).ok)
        => C4_OptionsOf(message, unwrap(encoded).v)
               = C4_Concat(C4_Entries(message.options, DOMAIN message.options),
                           1)

\* Options 1 and 258 have been encoded: the second option's first byte has
\* the delta nibble 13 and is followed by the extension byte 244 = 257 - 13;
\* its values have the lengths 269 (nibble 14), 1 and 268 (nibble 13).
C4_Witness ==
    /\ is_some(encoded) /\ unwrap(encoded).ok
    /\ message.token = <<>>
    /\ DOMAIN message.options = {1, 258}
    /\ message.options[1] = <<value_of_length(0)>>
    /\ Len(message.options[258]) = 3
    /\ SubSeq(unwrap(encoded).v, 5, 9) = <<16, 222, 244, 0, 0>>

\* ========================================================== block handler

\* The highest block number a request of the block specifications asks for.
MaxBlockNum == 3

\* BTreeMap::remove
map_remove(map, key) ==
    IF DOMAIN map \ {key} = {} THEN <<>>
    ELSE [k \in DOMAIN map \ {key} |-> map[k]]

\* The request carries no Block1 option and no payload, so
\* maybe_handle_request_block1 lets it through.
plain(request) ==
    /\ ~is_some(get_option(request.message, Block1))
    /\ request.message.payload = <<>>

\* Whether BlockHandler::intercept_request, with the outcome `done`, has
\* served the request from the cached response of the state.
serves_from_cache(request, max_total_message_size, state, done) ==
    /\ done.result = Ok(TRUE)
    /\ is_some(first_block_option(request.message, Block2))
    /\ is_some(state.cached_response)
    /\ maybe_handle_request_block1(request, max_total_message_size,
                                   state).result = Ok(FALSE)

\* The request asks for the next block of the transfer, at its block size.
continues_transfer(request, key, maybe_block2) ==
    /\ key \in DOMAIN transfer
    /\ transfer[key].more
    /\ plain(request)
    /\ is_some(maybe_block2)
    /\ unwrap(maybe_block2).num = transfer[key].next
    /\ unwrap(maybe_block2).size_exponent = transfer[key].size_exponent

\* The transfer after the response, with Block2 option `maybe_block2`, to a
\* request that continues it.
continued_transfer(t, done, maybe_block2) ==
    IF done.result = Ok(TRUE) /\ is_some(maybe_block2)
    THEN [t EXCEPT !.next = @ + 1,
                   !.received = @ \o unwrap(done.request.response).payload,
                   !.num = unwrap(maybe_block2).num,
                   !.more = unwrap(maybe_block2).more]
    ELSE [t EXCEPT !.broken = TRUE]

\* The Block2 option of the response of a request, if both are there.
response_block2(request) ==
    IF is_some(request.response)
    THEN first_block_option(unwrap(request.response), Block2)
    ELSE None

\* The request carries a Block1 chunk of the block size, or a shorter last one.
is_chunk_of(payload, maybe_block1) ==
    /\ is_some(maybe_block1)
    /\ payload # <<>>
    /\ Len(payload) <= block_size(unwrap(maybe_block1))
    /\ unwrap(maybe_block1).more
           => Len(payload) = block_size(unwrap(maybe_block1))

is_chunk(request) ==
    is_chunk_of(request.message.payload,
                first_block_option(request.message, Block1))

\* The chunks of the upload that the request starts (num = 0) or continues
\* (the next num at the same size), this chunk included; None otherwise.
chunks_with(request, key, maybe_block1) ==
    IF ~is_chunk(request) THEN None
    ELSE IF unwrap(maybe_block1).num = 0 THEN Some(request.message.payload)
    ELSE IF /\ key \in DOMAIN upload
            /\ unwrap(maybe_block1).num = upload[key].next
            /\ unwrap(maybe_block1).size_exponent = upload[key].size_exponent
    THEN Some(upload[key].sent \o request.message.payload)
    ELSE None

\* The upload that the chunk starts or continues began with no payload
\* buffered for the key.
starts_fresh(key, state, maybe_block1) ==
    IF is_some(maybe_block1) /\ unwrap(maybe_block1).num = 0
    THEN ~is_some(state.cached_request_payload)
    ELSE key \in DOMAIN upload /\ upload[key].fresh

\* The caller passes a request from a peer to BlockHandler::intercept_request
\* and, when that returns Ok(false), hands the request to the application,
\* which holds the requests `others` already.
passed_request(request, others) ==
    /\ \E key \in {request_cache_key(request)} :
       \E before \in {state_entry(states, key)} :
       \E done \in {intercept_request_on(request, config, before)} :
       \E from_cache \in {serves_from_cache(request, config, before, done)} :
       \E block1 \in {first_block_option(request.message, Block1)} :
       \E chunks \in {chunks_with(request, key, block1)} :
       \E fresh \in {starts_fresh(key, before, block1)} :
           /\ states' = map_insert(states, key, done.state)
           /\ panicked' = (done.result = Err("panic"))
           /\ forwarded' = IF done.result = Ok(FALSE)
                           THEN Some(done.request) \o others
                           ELSE others
           /\ outcome' = [call |-> "intercept_request",
                          key |-> key,
                          sent |-> request,
                          result |-> done.result,
                          request |-> done.request,
                          cached |-> before.cached_response,
                          from_cache |-> from_cache,
                          after_final |-> key \in final_served,
                          chunks |-> chunks,
                          fresh |-> fresh,
                          buffered |-> Len(request_payload_buffer(before)),
                          buffer |-> request_payload_buffer(before)]
           /\ transfer' =
                  IF continues_transfer(
                         request, key,
                         first_block_option(request.message, Block2))
                  THEN [transfer EXCEPT
                           ![key] = continued_transfer(
                                        @, done, response_block2(done.request))]
                  ELSE map_remove(transfer, key)
           /\ upload' = IF /\ is_some(chunks)
                           /\ unwrap(block1).more
                           /\ done.result = Ok(TRUE)
                        THEN map_insert(
                                 upload, key,
                                 [size_exponent |-> unwrap(block1).size_exponent,
                                  next |-> unwrap(block1).num + 1,
                                  sent |-> unwrap(chunks),
                                  fresh |-> fresh])
                        ELSE map_remove(upload, key)
           /\ final_served' =
                  IF from_cache /\ ~unwrap(response_block2(done.request)).more
                  THEN final_served \cup {key}
                  ELSE final_served \ {key}
    /\ UNCHANGED <<config, latest, observe_vars, codec_vars>>

\* The caller passes a request from a peer to BlockHandler::intercept_request
\* while the application handles no request.
intercept_request(request) ==
    /\ ~panicked
    /\ forwarded = None
    /\ passed_request(request, None)

\* The caller passes a request from a peer to BlockHandler::intercept_request
\* while the application handles fewer than `pending` requests.
intercept_request_among(request, pending) ==
    /\ ~panicked
    /\ Len(forwarded) < pending
    /\ passed_request(request, forwarded)

\* The encoded response is longer than max_total_message_size.
too_large(response, max_total_message_size) ==
    Len(to_bytes_internal(response, None).v) > max_total_message_size

\* The request with the code and the payload the application gives its
\* response.
answered(request, code, payload) ==
    [request EXCEPT
        !.response = IF is_some(@)
                     THEN Some([unwrap(@) EXCEPT !.header.code = code,
                                                 !.payload = payload])
                     ELSE @]

\* The caller passes the request, with the response the application has
\* prepared, to BlockHandler::intercept_response; the application goes on
\* with the requests `others`.
passed_response(request, payload, others) ==
    /\ \E key \in {request_cache_key(request)} :
       \E before \in {state_entry(states, key)} :
       \E done \in {intercept_response_on(request, config, before)} :
       \E block2 \in {response_block2(done.request)} :
           /\ states' = map_insert(states, key, done.state)
           /\ panicked' = (done.result = Err("panic"))
           /\ forwarded' = others
           /\ outcome' = [call |-> "intercept_response",
                          key |-> key,
                          sent |-> request,
                          result |-> done.result,
                          request |-> done.request,
                          cached |-> before.cached_response,
                          last_block2 |-> before.last_request_block2,
                          too_large |->
                              /\ is_some(request.response)
                              /\ too_large(unwrap(request.response), config)]
           /\ transfer' =
                  IF /\ done.result = Ok(TRUE)
                     /\ is_some(block2)
                     /\ unwrap(block2).num = 0
                  THEN map_insert(
                           transfer, key,
                           [original |-> payload,
                            size_exponent |-> unwrap(block2).size_exponent,
                            next |-> 1,
                            received |->
                                unwrap(done.request.response).payload,
                            num |-> unwrap(block2).num,
                            more |-> unwrap(block2).more,
                            broken |-> FALSE])
                  ELSE map_remove(transfer, key)
           /\ upload' = map_remove(upload, key)
           /\ final_served' = final_served \ {key}
           /\ latest' = IF is_some(request.response)
                        THEN map_insert(latest, key,
                                        unwrap(request.response).payload)
                        ELSE latest
    /\ UNCHANGED <<config, observe_vars, codec_vars>>

\* The application sets the code and the payload of the response to the
\* request it was handed, and the caller passes the request to
\* BlockHandler::intercept_response.
intercept_response(code, payload) ==
    /\ ~panicked
    /\ is_some(forwarded)
    /\ passed_response(answered(unwrap(forwarded), code, payload), payload,
                       None)

\* The application answers the i-th of the requests it handles with the code
\* and the payload, and the caller passes the request to
\* BlockHandler::intercept_response.
intercept_response_among(i, code, payload) ==
    /\ ~panicked
    /\ passed_response(answered(forwarded[i], code, payload), payload,
                       remove_at(forwarded, i))

\* The request with an option added to its response by the application.
with_option(request, number, value) ==
    [request EXCEPT
        !.response = IF is_some(@)
                     THEN Some(add_option(unwrap(@), number, value))
                     ELSE @]

\* The application sets the code and the payload of the response and adds an
\* option to it, and the caller passes the request to
\* BlockHandler::intercept_response.
intercept_response_with(code, payload, number, value) ==
    /\ ~panicked
    /\ is_some(forwarded)
    /\ passed_response(
           with_option(answered(unwrap(forwarded), code, payload),
                       number, value),
           payload, None)

\* The expiry duration of a key passes without a call for it: the LruCache
\* drops the entry.
expire(key) ==
    /\ ~panicked
    /\ key \in DOMAIN states
    /\ states' = map_remove(states, key)
    /\ outcome' = [call |-> "expire", key |-> key]
    /\ transfer' = map_remove(transfer, key)
    /\ upload' = map_remove(upload, key)
    /\ final_served' = final_served \ {key}
    /\ latest' = map_remove(latest, key)
    /\ UNCHANGED <<config, forwarded, panicked, observe_vars, codec_vars>>

\* TestEndpoint::TestClient
TestClient == "TestClient"

\* "test".as_bytes()
test_path == <<116, 101, 115, 116>>

\* n bytes that differ by position and by base.
bytes_from(base, n) == [i \in 1..n |-> (base + i) % 256]

\* create_request of the tests, with a payload
create_request(method, mid, block1, block2, payload) ==
    LET coded == [new_packet EXCEPT !.header.code = Request(method),
                                    !.header.message_id = mid]
        pathed == set_option(coded, UriPath, <<test_path>>)
        with1 == IF is_some(block1)
                 THEN add_option(pathed, Block1, block_to_bytes(unwrap(block1)))
                 ELSE pathed
        with2 == IF is_some(block2)
                 THEN add_option(with1, Block2, block_to_bytes(unwrap(block2)))
                 ELSE with1
    IN  from_packet([with2 EXCEPT !.payload = payload], TestClient)

BlockConfigs == {32, 48}

BlockMessageIds == {1, 2}

BlockSizes == {16, 32}

\* GET requests without a Block2 option and with Block2 num 0..MaxBlockNum,
\* and a GET that carries a first Block1 chunk.
Block2Requests ==
    {create_request("Get", mid, None, block2, <<>>) :
         mid \in BlockMessageIds,
         block2 \in {None}
             \cup {Some(new_block_value(num, FALSE, size).v) :
                       num \in 0..MaxBlockNum, size \in BlockSizes}}
    \cup {create_request("Get", 1, Some(new_block_value(0, TRUE, 16).v), None,
                         bytes_from(200, 16))}

\* The payloads the application answers with.
Block2Payloads == {bytes_from(100, 5), bytes_from(50, 32), bytes_from(0, 40)}

\* BlockHandler::new(config)
InitBlock ==
    /\ new_subject
    /\ codec_idle
    /\ panicked = FALSE
    /\ config \in BlockConfigs
    /\ states = <<>>
    /\ forwarded = None
    /\ outcome = [call |-> "new"]
    /\ transfer = <<>>
    /\ upload = <<>>
    /\ final_served = {}
    /\ latest = <<>>

NextBlock2 ==
    \/ \E r \in Block2Requests : intercept_request(r)
    \/ \E p \in Block2Payloads : intercept_response(Response("Content"), p)
    \/ \E k \in DOMAIN states : expire(k)

SpecBlock2 == InitBlock /\ [][NextBlock2]_vars

\* ===================================================== claims: block handler

\* The chunks of a payload at a block size, as PUT requests with Block1 num
\* 0, 1, ..., more = true on every chunk but the last.
chunk_requests(payload, size, mid) ==
    {create_request(
         "Put", mid,
         Some(new_block_value(num, (num + 1) * size < Len(payload), size).v),
         None,
         SubSeq(payload, num * size + 1,
                min((num + 1) * size, Len(payload)))) :
         num \in 0..((Len(payload) - 1) \div size)}

\* The uploads: MaxBlockNum + 1 chunks of 16 bytes (the last one 8 bytes),
\* two chunks of 16 and 8 bytes, two chunks of 32 and 8 bytes.
Block1Uploads ==
    {<<bytes_from(0, 16 * MaxBlockNum + 8), 16>>,
     <<bytes_from(100, 24), 16>>,
     <<bytes_from(50, 40), 32>>}

\* The chunks of the uploads and a PUT without a Block1 option.
Block1Requests ==
    UNION {chunk_requests(u[1], u[2], 1) : u \in Block1Uploads}
    \cup {create_request("Put", 2, None, None, bytes_from(200, 5))}

NextBlock1 ==
    \/ \E r \in Block1Requests : intercept_request(r)
    \/ intercept_response(Response("Changed"), <<>>)
    \/ \E k \in DOMAIN states : expire(k)

SpecBlock1 == InitBlock /\ [][NextBlock1]_vars

\* The block number, at block size 16, whose write ends
\* MAXIMUM_UNCOMMITTED_BUFFER_RESERVE_LENGTH + 16 bytes into the buffer.
ReserveNum == MAXIMUM_UNCOMMITTED_BUFFER_RESERVE_LENGTH \div 16

\* A PUT request with a Block1 option and a payload of the given length.
block1_request(num, more, size, len) ==
    create_request("Put", 1, Some(new_block_value(num, more, size).v), None,
                   bytes_from(num, len))

\* Chunks that write at the start of the buffer, at the reserve limit and
\* beyond it, at block sizes 16 and 1024.
ReserveRequests ==
    {block1_request(0, TRUE, 16, 16),
     block1_request(1, TRUE, 16, 16),
     block1_request(1, FALSE, 16, 8),
     block1_request(ReserveNum - 1, TRUE, 16, 16),
     block1_request(ReserveNum, TRUE, 16, 16),
     block1_request(ReserveNum, FALSE, 16, 8),
     block1_request(ReserveNum + 1, TRUE, 16, 16),
     block1_request(15, TRUE, 1024, 16),
     block1_request(16, TRUE, 1024, 16),
     block1_request(16, FALSE, 1024, 16)}

NextReserve ==
    \/ \E r \in ReserveRequests : intercept_request(r)
    \/ intercept_response(Response("Changed"), <<>>)
    \/ \E k \in DOMAIN states : expire(k)

SpecReserve == InitBlock /\ [][NextReserve]_vars

\* max_total_message_size values that leave a PUT to /test (9 bytes without
\* its payload, 12 reserved for block options) no block size, a maximum
\* block size of 0, of 11, of 27, of 79 and of 4099 bytes.
EntityConfigs == {20, 21, 32, 48, 100, 4120}

\* PUT requests without a Block1 option, with payloads of 5 to 4200 bytes.
EntityRequests ==
    {create_request("Put", mid, None, None, bytes_from(0, len)) :
         mid \in BlockMessageIds, len \in {5, 30, 88, 4200}}

\* BlockHandler::new(config) for the configurations of EntityConfigs
InitEntity ==
    /\ new_subject
    /\ codec_idle
    /\ panicked = FALSE
    /\ config \in EntityConfigs
    /\ states = <<>>
    /\ forwarded = None
    /\ outcome = [call |-> "new"]
    /\ transfer = <<>>
    /\ upload = <<>>
    /\ final_served = {}
    /\ latest = <<>>

NextEntity ==
    \/ \E r \in EntityRequests : intercept_request(r)
    \/ \E p \in {<<>>, bytes_from(0, 40)} :
           intercept_response(Response("Changed"), p)
    \/ \E k \in DOMAIN states : expire(k)

SpecEntity == InitEntity /\ [][NextEntity]_vars

\* =========================================================== block value

\* Block numbers around the byte boundaries of the option value and around
\* 2^12, where num << 4 leaves the u16.
BlockValueNums ==
    {0, 1, 15, 16, 255, 256, 4095, 4096, 4097, 8192, 65534, 65535}

\* The block sizes with size exponents 0..6.
BlockValueSizes == {16, 32, 64, 128, 256, 512, 1024}

\* message is BlockValue::new(num, more, size).unwrap()
InitBlockValue ==
    /\ new_subject
    /\ block_idle
    /\ panicked = FALSE
    /\ \E num \in BlockValueNums, more \in BOOLEAN, size \in BlockValueSizes :
           message = new_block_value(num, more, size).v
    /\ encoded = None
    /\ decoded = None

\* Vec::<u8>::from(block_value)
BlockValueEncode ==
    /\ encoded = None
    /\ encoded' = Some(block_to_bytes(message))
    /\ UNCHANGED <<message, decoded, observe_vars, block_vars, panicked>>

\* BlockValue::try_from(bytes)
BlockValueDecode ==
    /\ is_some(encoded)
    /\ decoded = None
    /\ decoded' = Some(block_from_bytes(unwrap(encoded)))
    /\ UNCHANGED <<message, encoded, observe_vars, block_vars, panicked>>

NextBlockValue == BlockValueEncode \/ BlockValueDecode

SpecBlockValue == InitBlockValue /\ [][NextBlockValue]_vars

\* ================================================================ limits

\* Limits for to_bytes_with_limit: the header alone, a few bytes more, and
\* the 1380 of the test to_bytes_limits_work.
Limits == {4, 6, 7, 12, 1380}

\* Payloads of 0 and 3 bytes, and of the lengths that bring a message with
\* a payload marker to MAX_SIZE - 1, MAX_SIZE and MAX_SIZE + 1 bytes.
LimitPayloads ==
    {<<>>, <<255, 1, 2>>}
    \cup {bytes_from(0, MAX_SIZE - n) : n \in {4, 5, 6}}

\* Messages with and without a code, a token and an option.
LimitMessages ==
    {build_packet(<<"Confirmable", code, 1>>, t, o, p) :
         code \in {Request("Get"), Empty},
         t \in {<<>>, <<1, 2>>},
         o \in {<<>>, set_option(new_packet, UriPath, <<test_path>>).options},
         p \in LimitPayloads}

InitLimit ==
    /\ new_subject
    /\ block_idle
    /\ panicked = FALSE
    /\ message \in LimitMessages
    /\ encoded = None
    /\ decoded = None

\* The caller encodes the message with to_bytes (limit Some(MAX_SIZE)),
\* to_bytes_with_limit (Some(limit)) or to_bytes_unlimited (None).
encode_with(op, limit) ==
    /\ encoded = None
    /\ encoded' = Some(to_bytes_internal(message, limit))
    /\ last' = [op |-> op, arg |-> limit]
    /\ UNCHANGED <<message, decoded, resources, unacknowledged_limit,
                   changes, block_vars, panicked>>

NextLimit ==
    \/ encode_with("to_bytes", Some(MAX_SIZE))
    \/ \E limit \in Limits : encode_with("to_bytes_with_limit", Some(limit))
    \/ encode_with("to_bytes_unlimited", None)

SpecLimit == InitLimit /\ [][NextLimit]_vars

\* ================================================================ decode

\* The number of option segments after the header of a received message.
MaxSegments == 2

\* The header of the tests reject_excessive_option_delta and
\* reject_excessive_option_number: version 1, no token, GET, message id 0.
test_header == <<64, 1, 0, 0>>

\* Option bytes: delta 0xFFFF, delta 0x10000, delta 0x1010C, delta 1, delta
\* 268, each with length 0; delta 1 with a missing value byte, with the
\* length nibble 15, with a missing length extension and with the extended
\* length 0x1010C; delta 0 with a value byte; the payload marker and a byte.
Segments ==
    {<<224, 254, 242>>, <<224, 254, 243>>, <<224, 255, 255>>, <<16>>,
     <<208, 255>>, <<17>>, <<31>>, <<29>>, <<30, 255, 255>>, <<1, 7>>,
     <<255, 9>>}

RECURSIVE concat(_)
\* The bytes of a sequence of segments.
concat(segments) ==
    IF segments = <<>> THEN <<>>
    ELSE Head(segments) \o concat(Tail(segments))

\* The header followed by up to MaxSegments segments.
SegmentMessages ==
    {test_header \o concat(s) :
         s \in UNION {[1..n -> Segments] : n \in 0..MaxSegments}}

\* A peer has sent the bytes; encoded holds them.
received(inputs) ==
    /\ new_subject
    /\ block_idle
    /\ panicked = FALSE
    /\ message = new_packet
    /\ encoded \in {Some(Ok(b)) : b \in inputs}
    /\ decoded = None

InitSegments == received(SegmentMessages)

NextSegments == Decode

SpecSegments == InitSegments /\ [][NextSegments]_vars

\* ================================================================= codes

\* message is a code byte of a received header.
InitCode ==
    /\ new_subject
    /\ block_idle
    /\ panicked = FALSE
    /\ message \in 0..U8_MAX
    /\ encoded = None
    /\ decoded = None

\* MessageClass::from(code), as in Header::from_raw
CodeDecode ==
    /\ decoded = None
    /\ decoded' = Some(class_from_u8(message))
    /\ UNCHANGED <<message, encoded, observe_vars, block_vars, panicked>>

\* u8::from(class), as in Header::to_raw
CodeEncode ==
    /\ is_some(decoded)
    /\ encoded = None
    /\ encoded' = Some(u8_from_class(unwrap(decoded)))
    /\ UNCHANGED <<message, decoded, observe_vars, block_vars, panicked>>

NextCode == CodeDecode \/ CodeEncode

SpecCode == InitCode /\ [][NextCode]_vars

\* ================================================================ panics

\* max_total_message_size 24 leaves a PUT to /test with a Block1 option
\* (12 bytes without its payload, 12 reserved) a maximum block size of 0;
\* 32 leaves it 8.
PanicConfigs == {24, 32}

\* The option Uri-Query
UriQuery == 15

\* A GET to /test with five Uri-Query values of 269 bytes: more than
\* MAX_SIZE bytes without a payload.
long_request(mid) ==
    LET request == create_request("Get", mid, None, None, <<>>)
        query == [i \in 1..5 |-> value_of_length(269)]
    IN  [request EXCEPT !.message = set_option(@, UriQuery, query)]

\* Chunks of an upload, GET requests with and without a Block2 option, and
\* the request with the long options.
PanicRequests ==
    UNION {{block1_request(0, TRUE, 16, 16),
            block1_request(1, FALSE, 16, 8),
            create_request("Get", mid, None, None, <<>>),
            create_request("Get", mid,
                           Some(new_block_value(0, FALSE, 16).v), None, <<>>),
            create_request("Get", mid, None,
                           Some(new_block_value(1, FALSE, 16).v), <<>>),
            long_request(mid)} : mid \in BlockMessageIds}

\* BlockHandler::new(config) for the configurations of PanicConfigs
InitPanic ==
    /\ new_subject
    /\ codec_idle
    /\ panicked = FALSE
    /\ config \in PanicConfigs
    /\ states = <<>>
    /\ forwarded = None
    /\ outcome = [call |-> "new"]
    /\ transfer = <<>>
    /\ upload = <<>>
    /\ final_served = {}
    /\ latest = <<>>

NextPanic ==
    \/ \E r \in PanicRequests : intercept_request(r)
    \/ \E p \in {<<>>, bytes_from(0, 40)} :
           intercept_response(Response("Content"), p)
    \/ \E k \in DOMAIN states : expire(k)

SpecPanic == InitPanic /\ [][NextPanic]_vars

\* ================================================================= bytes

\* The number of bytes after the first bytes of a received buffer.
MaxTail == 4

\* Nothing, headers cut short, and headers with token lengths 0, 1, 8, 9
\* and 15 and an unnamed code.
Heads ==
    {<<>>, <<64>>, <<64, 1, 0>>, <<64, 1, 0, 0>>, <<65, 1, 0, 0>>,
     <<72, 1, 0, 0>>, <<73, 1, 0, 0>>, <<79, 1, 0, 0>>, <<96, 5, 255, 255>>}

\* Bytes that are, as option bytes: delta 0 length 1; delta 0 length 0;
\* delta 1 length 15; delta 13 length 14; delta 14 length 13; delta 15
\* length 1; the payload marker.
TailBytes == {1, 0, 31, 222, 237, 241, 255}

\* A head followed by up to MaxTail bytes.
ByteStrings ==
    {h \o t : h \in Heads,
              t \in UNION {[1..n -> TailBytes] : n \in 0..MaxTail}}

InitBytes == received(ByteStrings)

NextBytes == Decode

SpecBytes == InitBytes /\ [][NextBytes]_vars

\* ================================================================ tokens

\* Token lengths up to the 8 of the protocol, up to the 15 of the header
\* field, and around the 256 where token.len() as u8 wraps.
TokenLengths == {0, 1, 8, 9, 15, 16, 255, 256, 257, 271, 272}

\* Tokens of these lengths, with three contents each.
Tokens == {bytes_from(base, n) : base \in {0, 100, 200}, n \in TokenLengths}

\* Packet::new()
InitToken ==
    /\ new_subject
    /\ codec_idle
    /\ block_idle
    /\ panicked = FALSE

\* The caller runs Packet::set_token on the message; the assert_eq of
\* Header::set_token_length panics before anything is stored.
SetToken(token) ==
    /\ ~panicked
    /\ panicked' = ~token_length_fits(token)
    /\ message' = IF token_length_fits(token) THEN set_token(message, token)
                  ELSE message
    /\ last' = [op |-> "set_token", arg |-> token]
    /\ UNCHANGED <<encoded, decoded, resources, unacknowledged_limit, changes,
                   block_vars>>

NextToken == \E token \in Tokens : SetToken(token)

SpecToken == InitToken /\ [][NextToken]_vars

\* ================================================================ errors

\* The number of apply_from_error calls on one request.
MaxErrors == 2

\* "Not found"
not_found_text == <<78, 111, 116, 32, 102, 111, 117, 110, 100>>

\* not_handled, not_found, bad_request with an empty message,
\* internal and method_not_supported with a one-letter message.
HandlingErrors ==
    {not_handled,
     with_code("NotFound", not_found_text),
     with_code("BadRequest", <<>>),
     with_code("InternalServerError", <<101>>),
     with_code("MethodNotAllowed", <<109>>)}

\* What the application has put into the response before the error: nothing,
\* an ETag, content-format application/json, text/plain, a content-format
\* value of three bytes, and a payload.
prepared(response, kind) ==
    CASE kind = "etag" -> add_option(response, 4, <<1, 2>>)
      [] kind = "json" ->
             [set_content_format(response, ApplicationJSON)
                 EXCEPT !.payload = <<123, 125>>]
      [] kind = "text" -> set_content_format(response, TextPlain)
      [] kind = "long" -> add_option(response, ContentFormat, <<1, 0, 0>>)
      [] kind = "payload" -> [response EXCEPT !.payload = <<1, 2, 3>>]
      [] OTHER -> response

\* A GET to /test of the given message type with a prepared response; a Reset
\* has no response.
error_request(type, kind) ==
    LET get == create_request("Get", 1, None, None, <<>>).message
        request == from_packet(
                       [get EXCEPT !.header = header_set_type(@, type)],
                       TestClient)
    IN  IF is_some(request.response)
        THEN [request EXCEPT !.response = Some(prepared(unwrap(@), kind))]
        ELSE request

ErrorRequests ==
    {error_request(type, kind) :
         type \in {"Confirmable", "NonConfirmable", "Reset"},
         kind \in {"none", "etag", "json", "text", "long", "payload"}}

\* The application holds a request whose handling is about to fail.
InitError ==
    /\ new_subject
    /\ codec_idle
    /\ panicked = FALSE
    /\ config = DEFAULT_MAX_TOTAL_MESSAGE_SIZE
    /\ states = <<>>
    /\ forwarded \in {Some(r) : r \in ErrorRequests}
    /\ outcome = [call |-> "new", count |-> 0]
    /\ transfer = <<>>
    /\ upload = <<>>
    /\ final_served = {}
    /\ latest = <<>>

\* The caller runs CoapRequest::apply_from_error on the request.
ApplyFromError(error) ==
    /\ outcome.count < MaxErrors
    /\ \E applied \in {apply_from_error(unwrap(forwarded), error)} :
           /\ forwarded' = Some(applied.request)
           /\ outcome' = [call |-> "apply_from_error",
                          count |-> outcome.count + 1,
                          error |-> error,
                          before |-> unwrap(forwarded),
                          result |-> applied.result]
    /\ UNCHANGED <<config, states, transfer, upload, final_served, latest,
                   observe_vars, codec_vars, panicked>>

NextError == \E error \in HandlingErrors : ApplyFromError(error)

SpecError == InitError /\ [][NextError]_vars

\* ====================================================== manual Block2

\* GET requests without a Block2 option and with Block2 num 0 and 1.
ManualRequests ==
    {create_request("Get", 1, None, block2, <<>>) :
         block2 \in {None}
             \cup {Some(new_block_value(num, FALSE, 16).v) : num \in 0..1}}

\* The Block2 values the application installs: num 0 with more, num 1
\* without, and a value of four bytes that is no block.
ManualBlocks ==
    {block_to_bytes(new_block_value(0, TRUE, 16).v),
     block_to_bytes(new_block_value(1, FALSE, 16).v),
     <<1, 2, 3, 4>>}

ManualPayloads == {bytes_from(100, 16), bytes_from(0, 40)}

NextManual ==
    \/ \E r \in ManualRequests : intercept_request(r)
    \/ \E p \in ManualPayloads : intercept_response(Response("Content"), p)
    \/ \E p \in ManualPayloads, b \in ManualBlocks :
           intercept_response_with(Response("Content"), p, Block2, b)
    \/ \E k \in DOMAIN states : expire(k)

SpecManual == InitBlock /\ [][NextManual]_vars

\* ================================================================== keys

\* The number of requests that the application handles at a time.
MaxPending == 2

\* A second endpoint
OtherClient == "OtherClient"

\* (method, uri-path, endpoint) as the peers see them: /test from two
\* endpoints and with two methods, the path /t, and two paths of one segment
\* that is not UTF-8.
PeerKeys ==
    <<<<"Get", <<test_path>>, TestClient>>,
      <<"Get", <<test_path>>, OtherClient>>,
      <<"Put", <<test_path>>, TestClient>>,
      <<"Get", <<<<116>>>>, TestClient>>,
      <<"Get", <<<<255>>>>, TestClient>>,
      <<"Get", <<<<254>>>>, TestClient>>>>

\* The pairs of keys whose requests interleave: two endpoints, two methods,
\* two paths, and the two paths that are not UTF-8.
KeyPairs == {<<1, 2>>, <<1, 3>>, <<1, 4>>, <<5, 6>>}

\* The (method, uri-path, endpoint) of a request.
peer_key(request) ==
    <<get_method(request), unwrap(get_option(request.message, UriPath)),
      unwrap(request.source)>>

\* The 24 bytes that only the i-th of PeerKeys sends and is answered with.
content_of(i) == bytes_from(24 * (i - 1), 24)

\* The bytes of the key of a request.
own_content(request) ==
    content_of(CHOOSE i \in 1..Len(PeerKeys) : PeerKeys[i] = peer_key(request))

\* The request of the i-th of PeerKeys with the block options and the
\* payload.
key_request(i, block1, block2, payload) ==
    LET made == create_request(PeerKeys[i][1], 1, block1, block2,
                               payload).message
    IN  from_packet(set_option(made, UriPath, PeerKeys[i][2]), PeerKeys[i][3])

\* The requests of a key that ask for what the handler holds: Block2 num 1
\* and the final block 1 of an upload.
KeyProbes(i) ==
    {key_request(i, None, Some(new_block_value(1, FALSE, 16).v), <<>>),
     key_request(i, Some(new_block_value(1, FALSE, 16).v), None,
                 SubSeq(content_of(i), 17, 24))}

\* The requests of a key: without a block option, with block 0 of an
\* upload, and the two above.
KeyRequests(i) ==
    {key_request(i, None, None, <<>>),
     key_request(i, Some(new_block_value(0, TRUE, 16).v), None,
                 SubSeq(content_of(i), 1, 16))}
    \cup KeyProbes(i)

\* BlockHandler::new with max_total_message_size 32; `last` holds the pair of
\* keys whose requests arrive.
InitKeys ==
    /\ resources = <<>>
    /\ unacknowledged_limit = DEFAULT_UNACKNOWLEDGED_LIMIT
    /\ changes = <<>>
    /\ \E pair \in KeyPairs : last = [op |-> "keys", arg |-> pair]
    /\ codec_idle
    /\ panicked = FALSE
    /\ config = 32
    /\ states = <<>>
    /\ forwarded = None
    /\ outcome = [call |-> "new"]
    /\ transfer = <<>>
    /\ upload = <<>>
    /\ final_served = {}
    /\ latest = <<>>

\* Requests of the first key and probes of the second arrive in any order,
\* and the application answers the requests it holds, each with the 24 bytes
\* of its key, in any order.
NextKeys ==
    \/ \E r \in KeyRequests(last.arg[1]) \cup KeyProbes(last.arg[2]) :
           intercept_request_among(r, MaxPending)
    \/ \E i \in 1..Len(forwarded) :
           intercept_response_among(i, Response("Content"),
                                    own_content(forwarded[i]))

SpecKeys == InitKeys /\ [][NextKeys]_vars

\* ======================================================= acknowledged

\* The endpoint that acknowledges every notification it is sent.
Acknowledger == "10.0.0.1"

AckedLimits == {1, 2}

\* The history of the specification: per resource, the message id of a
\* notification that the acknowledger was sent and has not acknowledged.
noted(op, awaiting) == [op |-> op, arg |-> <<>>, awaiting |-> awaiting]

\* The acknowledger observes the resource.
observed(resource) ==
    /\ resource \in DOMAIN resources
    /\ \E i \in 1..Len(resources[resource].observers) :
           resources[resource].observers[i].endpoint = Acknowledger

\* The history after the observers of the resource were notified.
awaiting_after_change(resource, message_id) ==
    IF observed(resource)
    THEN [last.awaiting EXCEPT ![resource] = Some(message_id)]
    ELSE last.awaiting

\* The history after an acknowledgement has arrived.
awaiting_after_ack(request) ==
    IF unwrap(request.source) = Acknowledger
    THEN [p \in DOMAIN last.awaiting |->
             IF last.awaiting[p] = Some(request.message_id) THEN None
             ELSE last.awaiting[p]]
    ELSE last.awaiting

InitAcked ==
    /\ resources = <<>>
    /\ unacknowledged_limit = DEFAULT_UNACKNOWLEDGED_LIMIT
    /\ last = noted("new", [p \in ObserveResources |-> None])
    /\ changes = [p \in ObserveResources |-> 0]
    /\ codec_idle
    /\ block_idle
    /\ panicked = FALSE

\* Endpoints register, resources change and acknowledgements arrive in any
\* order, except that a resource changes only after the acknowledger has
\* acknowledged the notification of its last change; the limit is set to 1
\* or more.
NextAcked ==
    \/ \E r \in ObserveRequests :
           register_noting(r, noted("register", last.awaiting))
    \/ \E p \in ObserveResources, m \in ObserveMessageIds :
           /\ sequence_below(p, MaxSequence)
           /\ last.awaiting[p] = None
           /\ resource_changed_noting(
                  p, m, noted("resource_changed", awaiting_after_change(p, m)))
    \/ \E r \in AckRequests :
           acknowledge_noting(r, noted("acknowledge", awaiting_after_ack(r)))
    \/ \E l \in AckedLimits :
           set_unacknowledged_limit_noting(
               l, noted("set_unacknowledged_limit", last.awaiting))

SpecAcked == InitAcked /\ [][NextAcked]_vars

\* C1: when the application's response is too large for
\* max_total_message_size, intercept_response fragments it, and the
\* intercept_request calls for the same key that ask for Block2 num 1, 2, ...
\* at the block size of the first response are answered with the requested
\* num, with more = true on every block but the last, and with payloads that
\* concatenate, in num order, to the application's payload.
C1_Block2Sequence ==
    /\ \A k \in DOMAIN transfer :
           /\ ~transfer[k].broken
           /\ transfer[k].num = transfer[k].next - 1
           /\ transfer[k].more
                  = (transfer[k].next * 2^(transfer[k].size_exponent + 4)
                         < Len(transfer[k].original))
           /\ transfer[k].received
                  = SubSeq(transfer[k].original, 1,
                           min(transfer[k].next
                                   * 2^(transfer[k].size_exponent + 4),
                               Len(transfer[k].original)))
           /\ ~transfer[k].more
                  => transfer[k].received = transfer[k].original
    /\ (/\ outcome.call = "intercept_response"
        /\ outcome.too_large
        /\ \/ ~is_some(first_block_option(outcome.sent.message, Block2))
           \/ unwrap(first_block_option(outcome.sent.message, Block2)).num = 0)
           => (outcome.result = Ok(TRUE) /\ outcome.key \in DOMAIN transfer)

\* A 40-byte response has gone out in three blocks of 16 bytes, the last two
\* served by intercept_request from the cached response.
C1_Witness ==
    /\ outcome.call = "intercept_request"
    /\ outcome.key \in DOMAIN transfer
    /\ transfer[outcome.key].next = 3
    /\ transfer[outcome.key].size_exponent = 0
    /\ ~transfer[outcome.key].more
    /\ Len(transfer[outcome.key].original) = 40
    /\ transfer[outcome.key].received = transfer[outcome.key].original

\* C5: a response that intercept_request serves from a cached response
\* carries the message id of the current request, not the cached one.
C5_CurrentMessageId ==
    (outcome.call = "intercept_request" /\ outcome.from_cache)
        => unwrap(outcome.request.response).header.message_id
               = outcome.sent.message.header.message_id

\* A request with message id 2 has been served from a response cached with
\* message id 1, and the response carries 2.
C5_Witness ==
    /\ outcome.call = "intercept_request"
    /\ outcome.from_cache
    /\ unwrap(outcome.cached).header.message_id = 1
    /\ outcome.sent.message.header.message_id = 2
    /\ unwrap(outcome.request.response).header.message_id = 2

\* C6: once intercept_request has served a block of the cached response with
\* more = false, the key has no cached response, and the next
\* intercept_request for the key, with or without a Block2 option, returns
\* Ok(false) and the request goes to the application. (The requests are those
\* that Block1 handling lets through: no Block1 option, no payload.)
C6_CacheGoneAfterLastBlock ==
    /\ \A k \in final_served :
           k \in DOMAIN states /\ ~is_some(states[k].cached_response)
    /\ (/\ outcome.call = "intercept_request"
        /\ outcome.after_final
        /\ plain(outcome.sent))
           => (outcome.result = Ok(FALSE) /\ forwarded = Some(outcome.request))

\* The call after the last block carried a Block2 option and was not served.
C6_Witness ==
    /\ outcome.call = "intercept_request"
    /\ outcome.after_final
    /\ is_some(first_block_option(outcome.sent.message, Block2))
    /\ outcome.result = Ok(FALSE)
    /\ forwarded = Some(outcome.request)

\* The Block1 option of the chunk that intercept_request has handled.
handled_block1 ==
    unwrap(first_block_option(outcome.sent.message, Block1))

\* What C2 says of a chunk of an upload sent in increasing num order.
reassembled ==
    IF handled_block1.more
    THEN /\ outcome.result = Ok(TRUE)
         /\ is_some(outcome.request.response)
         /\ unwrap(outcome.request.response).header.code
                = Response("Continue")
    ELSE /\ outcome.result = Ok(FALSE)
         /\ outcome.request.message.payload = unwrap(outcome.chunks)

\* C2: for a payload split into block-size chunks and sent with Block1 in
\* increasing num order to the same key, intercept_request returns Ok(true)
\* with code 2.31 Continue for every chunk with more = true, and Ok(false)
\* for the chunk with more = false, with the request payload replaced by the
\* concatenation of all chunks in order.
C2_Block1Reassembly ==
    (outcome.call = "intercept_request" /\ is_some(outcome.chunks))
        => reassembled

\* The same for the uploads that begin with no payload buffered for the key.
C2_FreshUpload ==
    (/\ outcome.call = "intercept_request"
     /\ is_some(outcome.chunks)
     /\ outcome.fresh)
        => reassembled

\* An upload of 16 and 8 bytes, begun after three chunks of an abandoned
\* upload, reaches the application as 40 bytes.
C2_StaleBuffer ==
    /\ outcome.call = "intercept_request"
    /\ is_some(outcome.chunks)
    /\ ~outcome.fresh
    /\ handled_block1.num = 1
    /\ ~handled_block1.more
    /\ outcome.result = Ok(FALSE)
    /\ unwrap(outcome.chunks) = bytes_from(100, 24)
    /\ outcome.request.message.payload
           = bytes_from(100, 24) \o SubSeq(bytes_from(0, 48), 33, 48)

\* A fresh upload of four chunks has reached the application whole.
C2_FreshWitness ==
    /\ outcome.call = "intercept_request"
    /\ is_some(outcome.chunks)
    /\ outcome.fresh
    /\ handled_block1.num = MaxBlockNum
    /\ ~handled_block1.more
    /\ outcome.request.message.payload = bytes_from(0, 16 * MaxBlockNum + 8)

\* The end of the range that the handled Block1 chunk writes.
write_end == (handled_block1.num + 1) * block_size(handled_block1)

\* The reassembly buffer of the key of the last call.
buffer_now ==
    request_payload_buffer(state_entry(states, outcome.key))

\* C11: a Block1 request whose write would end more than
\* MAXIMUM_UNCOMMITTED_BUFFER_RESERVE_LENGTH (16 KiB) beyond the current
\* length of the reassembly buffer makes intercept_request fail with a
\* HandlingError, and the failed call leaves the length of the buffer
\* unchanged.
C11_ReserveLimit ==
    (/\ outcome.call = "intercept_request"
     /\ is_some(first_block_option(outcome.sent.message, Block1))
     /\ write_end - outcome.buffered
            > MAXIMUM_UNCOMMITTED_BUFFER_RESERVE_LENGTH)
        => (/\ ~outcome.result.ok
            /\ outcome.result.e # "panic"
            /\ Len(buffer_now) = outcome.buffered)

\* A chunk that would end 16 KiB + 16 bytes beyond a buffer of 16 bytes has
\* failed and left the 16 bytes.
C11_Witness ==
    /\ outcome.call = "intercept_request"
    /\ is_some(first_block_option(outcome.sent.message, Block1))
    /\ outcome.buffered = 16
    /\ write_end = MAXIMUM_UNCOMMITTED_BUFFER_RESERVE_LENGTH + 32
    /\ outcome.result = Err("internal")
    /\ Len(buffer_now) = 16

\* A chunk that ends exactly 16 KiB beyond the buffer is accepted.
C11_AtLimit ==
    /\ outcome.call = "intercept_request"
    /\ is_some(first_block_option(outcome.sent.message, Block1))
    /\ write_end - outcome.buffered
           = MAXIMUM_UNCOMMITTED_BUFFER_RESERVE_LENGTH
    /\ outcome.result = Ok(TRUE)

\* max_block_size of negotiate_block_size_if_necessary for the request of
\* the last call; negative where the checked_sub fails.
request_max_block_size ==
    config - ((compute_message_size_hack(outcome.sent.message).v
                   + BLOCK_OPTIONS_MAX_LENGTH)
              - Len(outcome.sent.message.payload))

\* The request of the last call carries no Block1 option and does not fit
\* one message of max_total_message_size.
entity_too_large ==
    /\ outcome.call = "intercept_request"
    /\ ~is_some(get_option(outcome.sent.message, Block1))
    /\ too_large(outcome.sent.message, config)

\* The Block1 option that advertises a maximum block size: num 0, more, and
\* the largest block size 2^(e + 4) not above it (16 for maxima below 16).
advertised(max_block_size) ==
    [num |-> 0, more |-> TRUE,
     size_exponent |->
         IF max_block_size < 32 THEN 0
         ELSE unwrap(largest_power_of_2_not_in_excess(max_block_size)) - 4]

\* The last call returned Ok(true) with 4.13 Request Entity Too Large and a
\* Block1 option that advertises the maximum block size.
entity_rejected ==
    /\ outcome.result = Ok(TRUE)
    /\ is_some(outcome.request.response)
    /\ unwrap(outcome.request.response).header.code
           = Response("RequestEntityTooLarge")
    /\ first_block_option(unwrap(outcome.request.response), Block1)
           = Some(advertised(request_max_block_size))

\* C12: when a request carries no Block1 option and its payload is too large
\* to fit one message at max_total_message_size, intercept_request returns
\* Ok(true) with response code 4.13 Request Entity Too Large and a response
\* Block1 option with num = 0, more = true and the server's maximum block
\* size.
C12_EntityTooLarge ==
    entity_too_large => entity_rejected

\* The same for the maximum block sizes 1..4095.
C12_EntityTooLargeInRange ==
    (entity_too_large /\ request_max_block_size \in 1..4095)
        => entity_rejected

\* A payload of 4200 bytes at max_total_message_size 4120 has been answered
\* with an internal error.
C12_Failure ==
    /\ entity_too_large
    /\ config = 4120
    /\ Len(outcome.sent.message.payload) = 4200
    /\ outcome.result = Err("internal")

\* A payload of 88 bytes at max_total_message_size 100 has been answered
\* with 4.13 and block size 64.
C12_Rejected ==
    /\ entity_too_large
    /\ config = 100
    /\ entity_rejected
    /\ block_size(unwrap(first_block_option(
                             unwrap(outcome.request.response), Block1))) = 64

\* C13: for every num in 0..65535, more in {false, true} and size in
\* {16, 32, 64, 128, 256, 512, 1024}, converting BlockValue::new(num, more,
\* size) to option bytes and decoding those bytes yields a BlockValue equal
\* to the original.
C13_BlockValueRoundTrip ==
    is_some(decoded) => unwrap(decoded) = Ok(message)

\* The same for num below 2^12.
C13_BlockValueRoundTripBelow4096 ==
    (is_some(decoded) /\ message.num < 4096)
        => unwrap(decoded) = Ok(message)

\* BlockValue::new(4096, false, 16) has become the empty option value and
\* decoded as num 0.
C13_Truncated ==
    /\ message = [num |-> 4096, more |-> FALSE, size_exponent |-> 0]
    /\ encoded = Some(<<>>)
    /\ decoded = Some(Ok([num |-> 0, more |-> FALSE, size_exponent |-> 0]))

\* BlockValue::new(4095, true, 1024) has come back from two bytes.
C13_Returned ==
    /\ message = [num |-> 4095, more |-> TRUE, size_exponent |-> 6]
    /\ encoded = Some(<<255, 254>>)
    /\ decoded = Some(Ok(message))

\* The bytes the message encodes to when nothing limits the length.
encoded_unlimited == to_bytes_internal(message, None).v

\* What C14 says of the encoding that is in `encoded`.
limit_respected ==
    IF is_some(last.arg)
    THEN unwrap(encoded)
             = (IF Len(encoded_unlimited) > unwrap(last.arg)
                THEN Err("InvalidPacketLength")
                ELSE Ok(encoded_unlimited))
    ELSE unwrap(encoded).ok

\* C14: encoding with a limit (Packet::MAX_SIZE by default) fails with
\* InvalidPacketLength exactly when the total encoded length of the message
\* exceeds the limit, and succeeds with the encoded bytes otherwise;
\* to_bytes_unlimited never fails because of length.
C14_LimitExact ==
    is_some(encoded) => limit_respected

\* The same for the messages whose payload is encoded: all but those with
\* code Empty and a non-empty payload.
C14_LimitExactWithMarker ==
    (is_some(encoded) /\ (message.payload = <<>> \/ has_payload_marker(message)))
        => limit_respected

\* An Empty message with a payload of 3 bytes, which encodes to the 4 header
\* bytes, has been refused at the limit 6.
C14_EmptyRefused ==
    /\ is_some(encoded)
    /\ message.header.code = Empty
    /\ message.token = <<>>
    /\ message.options = <<>>
    /\ Len(message.payload) = 3
    /\ last.arg = Some(6)
    /\ Len(encoded_unlimited) = 4
    /\ unwrap(encoded) = Err("InvalidPacketLength")

\* A message of exactly MAX_SIZE bytes has been encoded by to_bytes.
C14_AtLimit ==
    /\ is_some(encoded)
    /\ last.op = "to_bytes"
    /\ unwrap(encoded).ok
    /\ Len(unwrap(encoded).v) = MAX_SIZE

\* The number of extension bytes that follow a delta or length nibble.
extension_width(nib) == IF nib = 13 THEN 1 ELSE IF nib = 14 THEN 2 ELSE 0

\* The delta or length that a nibble and its extension bytes at idx stand
\* for on the wire.
wire_field(buf, nib, idx) ==
    CASE nib = 13 -> buf[idx + 1] + 13
      [] nib = 14 -> (buf[idx + 1] * 256) + buf[idx + 2] + 269
      [] OTHER -> nib

\* The length field that starts at idx is not one of a well-formed option:
\* nibble 15, missing extension bytes, or a length above 65535.
bad_length(buf, nib, idx) ==
    \/ nib = 15
    \/ idx + extension_width(nib) > Len(buf)
    \/ wire_field(buf, nib, idx) > 65535

RECURSIVE excess(_, _, _)
\* Walks the options of a received message from idx with the running option
\* number: "delta" if an extended delta is above 65535, "number" if the
\* running sum goes above 65535 at an option with a well-formed length
\* field, "number_bad_length" if it does so at an option whose length field
\* is malformed, "none" if no option number goes above 65535 before the
\* options end or stop being readable.
excess(buf, idx, number) ==
    IF idx >= Len(buf) \/ buf[idx + 1] = 255 THEN "none"
    ELSE LET dn == buf[idx + 1] \div 16
             ln == buf[idx + 1] % 16
             lidx == idx + 1 + extension_width(dn)
             vidx == lidx + extension_width(ln)
         IN  IF dn = 15 \/ lidx > Len(buf) THEN "none"
             ELSE IF wire_field(buf, dn, idx + 1) > 65535 THEN "delta"
             ELSE IF number + wire_field(buf, dn, idx + 1) > 65535
             THEN IF bad_length(buf, ln, lidx) THEN "number_bad_length"
                  ELSE "number"
             ELSE IF bad_length(buf, ln, lidx) THEN "none"
             ELSE IF vidx + wire_field(buf, ln, lidx) > Len(buf) THEN "none"
             ELSE excess(buf, vidx + wire_field(buf, ln, lidx),
                         number + wire_field(buf, dn, idx + 1))

\* excess for the received bytes, whose header carries no token.
received_excess == excess(unwrap(encoded).v, 4, 0)

\* C15, as stated: Packet::from_bytes fails with InvalidOptionDelta, and
\* returns no packet, whenever a single extended delta or the running sum of
\* option deltas would give an option number above 65535.
C15_ExcessiveDelta ==
    (is_some(decoded) /\ received_excess # "none")
        => unwrap(decoded) = Err("InvalidOptionDelta")

\* C15, amended: from_bytes returns no packet whenever an extended delta or
\* the running sum would give an option number above 65535; the error is
\* InvalidOptionDelta, except that a running sum above 65535 at an option
\* whose length field is malformed is reported as InvalidOptionLength.
C15_ExcessiveDeltaOrLength ==
    is_some(decoded)
        => /\ received_excess \in {"delta", "number"}
                  => unwrap(decoded) = Err("InvalidOptionDelta")
           /\ received_excess = "number_bad_length"
                  => unwrap(decoded) = Err("InvalidOptionLength")

\* The bytes of reject_excessive_option_number (delta 0xFFFF, then delta 1)
\* have been rejected with InvalidOptionDelta.
C15_Witness ==
    /\ encoded = Some(Ok(test_header \o <<224, 254, 242, 16>>))
    /\ received_excess = "number"
    /\ decoded = Some(Err("InvalidOptionDelta"))

\* C16: every code byte, including the bytes outside the enumerated set,
\* survives decoding into a MessageClass and encoding back unchanged.
C16_CodeByteRoundTrip ==
    is_some(encoded) => unwrap(encoded) = message

\* The same for the bytes that From<u8> for MessageClass names.
C16_NamedCodeByteRoundTrip ==
    (is_some(encoded) /\ \E i \in 1..Len(CodeTable) : CodeTable[i][1] = message)
        => unwrap(encoded) = message

\* The code byte 0x05 (0.05, FETCH) has become Reserved and then 0xFF.
C16_Discarded ==
    /\ message = 5
    /\ decoded = Some(Reserved)
    /\ encoded = Some(255)

\* The code byte 0x9D (4.29) has come back.
C16_Kept ==
    /\ message = 157
    /\ decoded = Some(Response("TooManyRequests"))
    /\ encoded = Some(157)

\* C17: intercept_request and intercept_response never panic, for any
\* options and payload a peer can put in a request and any configured
\* max_total_message_size; every failure is returned as a HandlingError.
C17_NeverPanics ==
    /\ ~panicked
    /\ outcome.call \in {"intercept_request", "intercept_response"}
           => outcome.result # Err("panic")

\* The request of the last call does not encode within MAX_SIZE without its
\* payload.
sans_payload_too_long ==
    ~to_bytes([outcome.sent.message EXCEPT !.payload = <<>>]).ok

\* The panics of the model: the expect of compute_message_size_hack on a
\* request longer than MAX_SIZE without its payload, and the division by a
\* negotiated block size of 0 for a request with a Block1 option.
C17_PanicCauses ==
    panicked
        => /\ outcome.call = "intercept_request"
           /\ outcome.result = Err("panic")
           /\ \/ sans_payload_too_long
              \/ /\ is_some(first_block_option(outcome.sent.message, Block1))
                 /\ request_max_block_size = 0

\* At max_total_message_size 24 the first chunk of an upload has divided by
\* a negotiated block size of 0.
C17_DivisionByZero ==
    /\ panicked
    /\ config = 24
    /\ outcome.call = "intercept_request"
    /\ ~sans_payload_too_long
    /\ request_max_block_size = 0
    /\ handled_block1 = [num |-> 0, more |-> TRUE, size_exponent |-> 0]

\* At max_total_message_size 32 the request with 1360 bytes of Uri-Query
\* options has failed the expect of compute_message_size_hack.
C17_ExpectFailed ==
    /\ panicked
    /\ config = 32
    /\ outcome.call = "intercept_request"
    /\ sans_payload_too_long

\* MessageError
MessageErrors ==
    {"InvalidHeader", "InvalidPacketLength", "InvalidTokenLength",
     "InvalidOptionDelta", "InvalidOptionLength"}

\* The packet accounts for every byte of the buffer: the header is the first
\* four bytes, and the rest is the token, the options as they encode, and
\* either nothing or the payload marker and the payload.
complete(packet, buf) ==
    /\ Len(buf) >= 4
    /\ packet.header = header_from_bytes(buf)
    /\ Len(packet.token) = header_get_token_length(packet.header)
    /\ Len(packet.token) <= 8
    /\ \A n \in DOMAIN packet.options : packet.options[n] # <<>>
    /\ \E tail \in {<<>>, <<255>> \o packet.payload} :
           /\ tail = <<>> => packet.payload = <<>>
           /\ buf = SubSeq(buf, 1, 4) \o packet.token
                      \o options_bytes(packet.options, DOMAIN packet.options, 0)
                      \o tail

\* C18: for every byte string, Packet::from_bytes returns either a complete
\* packet or one of the MessageError values; it never panics, never reads
\* outside the buffer and never returns a partial packet.
C18_CompleteOrError ==
    is_some(decoded)
        => IF unwrap(decoded).ok
           THEN complete(unwrap(decoded).v, unwrap(encoded).v)
           ELSE unwrap(decoded).e \in MessageErrors

\* A buffer with a token and two values of option 0, the second the byte
\* 0xFF, has been decoded.
C18_Witness ==
    /\ encoded = Some(Ok(<<65, 1, 0, 0, 1, 0, 1, 255>>))
    /\ is_some(decoded)
    /\ unwrap(decoded).ok
    /\ unwrap(decoded).v.token = <<1>>
    /\ unwrap(decoded).v.options = (0 :> <<<<>>, <<255>>>>)
    /\ unwrap(decoded).v.payload = <<>>

\* A buffer whose extended length reaches past its end has been refused.
C18_Refused ==
    /\ encoded = Some(Ok(<<64, 1, 0, 0, 222, 0, 0, 1>>))
    /\ decoded = Some(Err("InvalidOptionLength"))

\* C19: after any sequence of set_token calls, whatever the length of the
\* byte string passed, the token length stored in the header equals the
\* length of the stored token.
C19_TokenLength ==
    header_get_token_length(message.header) = Len(message.token)

\* The same while the stored token has at most 15 bytes; a token of 16 to
\* 255 bytes panics and stores nothing.
C19_TokenLengthBelow16 ==
    Len(message.token) < 16
        => header_get_token_length(message.header) = Len(message.token)

\* set_token with 256 bytes has stored the token with the token length 0.
C19_Wrapped ==
    /\ ~panicked
    /\ last = [op |-> "set_token", arg |-> bytes_from(0, 256)]
    /\ Len(message.token) = 256
    /\ header_get_token_length(message.header) = 0

\* set_token with 15 bytes has stored the token length 15.
C19_Stored ==
    /\ ~panicked
    /\ Len(message.token) = 15
    /\ message.header.ver_type_tkl = 64 + 15

\* The response of the request after the last call.
reply_now == unwrap(unwrap(forwarded).response)

\* What C20 says of the last apply_from_error call.
error_applied ==
    IF is_some(outcome.error.code) /\ is_some(outcome.before.response)
    THEN /\ outcome.result = TRUE
         /\ reply_now.header.code = Response(unwrap(outcome.error.code))
         /\ reply_now.payload = outcome.error.message
         /\ get_content_format(reply_now) = Some(TextPlain)
    ELSE /\ outcome.result = FALSE
         /\ unwrap(forwarded) = outcome.before

\* C20: apply_from_error with an error that carries a response code, on a
\* request that has a response, returns true and leaves the response with
\* that code, the error message bytes as payload and content-format
\* text/plain as reported by get_content_format, whatever options the
\* response held before; with an error without a code (not_handled) or a
\* request without a response it returns false and leaves the response
\* unchanged.
C20_ErrorApplied ==
    outcome.call = "apply_from_error" => error_applied

\* The same for the responses that held no Content-Format option before.
C20_ErrorAppliedWithoutFormat ==
    (/\ outcome.call = "apply_from_error"
     /\ is_some(outcome.before.response)
            => ~is_some(get_option(unwrap(outcome.before.response),
                                   ContentFormat)))
        => error_applied

\* not_found on a response with content-format application/json has left
\* application/json as the content-format of the error text.
C20_FormatKept ==
    /\ outcome.call = "apply_from_error"
    /\ outcome.count = 1
    /\ outcome.error = with_code("NotFound", not_found_text)
    /\ outcome.result = TRUE
    /\ get_content_format(unwrap(outcome.before.response))
           = Some(ApplicationJSON)
    /\ reply_now.payload = not_found_text
    /\ get_content_format(reply_now) = Some(ApplicationJSON)

\* not_found on a response with an ETag has made it 4.04 with text/plain.
C20_Applied ==
    /\ outcome.call = "apply_from_error"
    /\ outcome.error = with_code("NotFound", not_found_text)
    /\ is_some(get_option(reply_now, 4))
    /\ reply_now.header.code = Response("NotFound")
    /\ get_content_format(reply_now) = Some(TextPlain)

\* The application's response, as passed to the last intercept_response.
sent_response == unwrap(outcome.sent.response)

\* C21: if the application's response already carries a Block2 option,
\* intercept_response returns Ok(false), leaves the response's options and
\* payload unchanged and stores no cached response for the key: the cached
\* response of the key is what it was before the call.
C21_ManualBlock2 ==
    (/\ outcome.call = "intercept_response"
     /\ is_some(outcome.sent.response)
     /\ is_some(get_option(sent_response, Block2)))
        => /\ outcome.result = Ok(FALSE)
           /\ outcome.request = outcome.sent
           /\ states[outcome.key].cached_response = outcome.cached

\* A 40-byte response with the application's own Block2 (num 0, more) has
\* passed for a key without a cached response, and nothing is cached.
C21_Witness ==
    /\ outcome.call = "intercept_response"
    /\ outcome.too_large
    /\ get_option(sent_response, Block2)
           = Some(<<block_to_bytes(new_block_value(0, TRUE, 16).v)>>)
    /\ sent_response.payload = bytes_from(0, 40)
    /\ outcome.result = Ok(FALSE)
    /\ unwrap(outcome.request.response).payload = bytes_from(0, 40)
    /\ outcome.cached = None
    /\ states[outcome.key].cached_response = None

\* The encoded size of the response without its payload, plus the length of
\* its payload, plus the reserve for the block options.
projected_size(response) ==
    compute_message_size_hack(response).v + BLOCK_OPTIONS_MAX_LENGTH

\* The last call was intercept_response with a response of the application
\* that carries no Block2 option, to a request without a Block2 option.
plain_response_passed ==
    /\ outcome.call = "intercept_response"
    /\ is_some(outcome.sent.response)
    /\ ~is_some(get_option(sent_response, Block2))
    /\ ~is_some(first_block_option(outcome.sent.message, Block2))

\* The call has returned Ok(false) and the request, with its response, is as
\* it was passed.
left_alone ==
    /\ outcome.result = Ok(FALSE)
    /\ outcome.request = outcome.sent

\* C22: if the response's encoded size without payload, plus its payload
\* length, plus the 12-byte block-option reserve is at most
\* max_total_message_size, and the client's request carried no Block2,
\* intercept_response returns Ok(false) and leaves the response's options and
\* payload exactly as the application set them, including when the projected
\* size equals the limit.
C22_FitsLeftAlone ==
    (plain_response_passed /\ projected_size(sent_response) <= config)
        => left_alone

\* The same with a projected size below the limit.
C22_BelowLimitLeftAlone ==
    (plain_response_passed /\ projected_size(sent_response) < config)
        => left_alone

\* A 32-byte response whose projected size is max_total_message_size (48)
\* has come back with a Block2 option (num 0, no more, size 32).
C22_AtLimit ==
    /\ plain_response_passed
    /\ config = 48
    /\ sent_response.payload = bytes_from(50, 32)
    /\ projected_size(sent_response) = config
    /\ outcome.result = Ok(FALSE)
    /\ sent_response.options = <<>>
    /\ first_block_option(unwrap(outcome.request.response), Block2)
           = Some(new_block_value(0, FALSE, 32).v)

\* A 5-byte response has passed unchanged.
C22_Below ==
    /\ plain_response_passed
    /\ projected_size(sent_response) < config
    /\ sent_response.payload = bytes_from(100, 5)
    /\ left_alone

\* The block sizes of RFC 7959 that a block option can name.
NamedBlockSizes == {16, 32, 64, 128, 256, 512, 1024}

\* max_total_message_size minus the non-payload size of the message and the
\* reserve for the block options.
max_block_size_of(packet) ==
    config - ((compute_message_size_hack(packet).v - Len(packet.payload))
                  + BLOCK_OPTIONS_MAX_LENGTH)

\* The size is the largest named block size within the requested size, if
\* the client requested one, and within the bound.
largest_within(size, requested, bound) ==
    /\ size \in NamedBlockSizes
    /\ size <= bound
    /\ is_some(requested) => size <= block_size(unwrap(requested))
    /\ \A other \in NamedBlockSizes :
           (/\ other <= bound
            /\ is_some(requested) => other <= block_size(unwrap(requested)))
               => other <= size

\* The response of the last call carries a block option, of the given
\* number, that the handler has put there.
put_by_handler(number) ==
    /\ outcome.call \in {"intercept_request", "intercept_response"}
    /\ outcome.result.ok
    /\ is_some(outcome.request.response)
    /\ is_some(first_block_option(unwrap(outcome.request.response), number))
    /\ ~is_some(get_option(sent_response, number))

\* The message whose size bounds the Block2 size of the last call: the cached
\* response that intercept_request serves, or the application's response.
block2_message ==
    IF outcome.call = "intercept_request" THEN unwrap(outcome.cached)
    ELSE sent_response

\* What C23 says of the Block1 option of the last call.
block1_size_negotiated ==
    largest_within(
        block_size(unwrap(first_block_option(
                              unwrap(outcome.request.response), Block1))),
        first_block_option(outcome.sent.message, Block1),
        max_block_size_of(outcome.sent.message))

\* What C23 says of the Block2 option of the last call, for a requested
\* block.
block2_size_within(requested) ==
    largest_within(
        block_size(unwrap(first_block_option(
                              unwrap(outcome.request.response), Block2))),
        requested, max_block_size_of(block2_message))

\* What C23 says of the Block2 option of the last call.
block2_size_negotiated ==
    block2_size_within(first_block_option(outcome.sent.message, Block2))

\* C23: every block size the handler puts into a Block1 or Block2 option is
\* a power of two in {16, ..., 1024} that does not exceed min(client-requested
\* block size, max_block_size), where max_block_size is
\* max_total_message_size minus the message's non-payload size and the
\* 12-byte reserve; it is the largest such power of two.
C23_NegotiatedSize ==
    /\ put_by_handler(Block1) => block1_size_negotiated
    /\ put_by_handler(Block2) => block2_size_negotiated

\* The same for the options that come out of a negotiation with a
\* max_block_size of at least 16: Block1, and the Block2 that
\* intercept_response puts, with the requested block that the state of the
\* key holds (none after the state has expired).
C23_NegotiatedSizeOnResponse ==
    /\ (/\ put_by_handler(Block1)
        /\ max_block_size_of(outcome.sent.message) >= 16)
           => block1_size_negotiated
    /\ (/\ put_by_handler(Block2)
        /\ outcome.call = "intercept_response"
        /\ max_block_size_of(sent_response) >= 16)
           => block2_size_within(outcome.last_block2)

\* With max_block_size 8 a Block1 chunk of size 16 has been answered with
\* 2.31 Continue and Block1 size 16.
C23_BelowSixteen ==
    /\ outcome.call = "intercept_request"
    /\ put_by_handler(Block1)
    /\ max_block_size_of(outcome.sent.message) = 8
    /\ block_size(unwrap(first_block_option(
                             unwrap(outcome.request.response), Block1))) = 16

\* With max_total_message_size 32 (max_block_size 16) a request with Block2
\* size 32 has been served a 32-byte block of the cached response.
C23_CachedOversize ==
    /\ outcome.call = "intercept_request"
    /\ outcome.from_cache
    /\ config = 32
    /\ max_block_size_of(block2_message) = 16
    /\ first_block_option(unwrap(outcome.request.response), Block2)
           = Some(new_block_value(0, TRUE, 32).v)
    /\ Len(unwrap(outcome.request.response).payload) = 32

\* With max_block_size 16 a request with Block2 size 32 has been answered by
\* intercept_response with blocks of 16 bytes.
C23_Negotiated ==
    /\ outcome.call = "intercept_response"
    /\ put_by_handler(Block2)
    /\ max_block_size_of(sent_response) = 16
    /\ first_block_option(outcome.sent.message, Block2)
           = Some(new_block_value(0, FALSE, 32).v)
    /\ first_block_option(unwrap(outcome.request.response), Block2)
           = Some(new_block_value(0, TRUE, 16).v)

\* A block is needed for the message: the client has asked for one, or the
\* payload does not fit.
needs_block(packet, requested) ==
    \/ is_some(requested)
    \/ Len(packet.payload) >= max_block_size_of(packet)

\* The last call has negotiated a block for a message whose max_block_size
\* is below the bound: intercept_request for the request, intercept_response
\* for a response without a Block2 option of the application.
negotiated_below(bound) ==
    \/ /\ outcome.call = "intercept_request"
       /\ max_block_size_of(outcome.sent.message) < bound
       /\ needs_block(outcome.sent.message,
                      first_block_option(outcome.sent.message, Block1))
    \/ /\ outcome.call = "intercept_response"
       /\ is_some(outcome.sent.response)
       /\ ~is_some(get_option(sent_response, Block2))
       /\ max_block_size_of(sent_response) < bound
       /\ needs_block(sent_response, outcome.last_block2)

\* The last call has failed with an internal error and has put no block
\* option into the response.
failed_internal ==
    /\ outcome.result = Err("internal")
    /\ is_some(outcome.request.response)
           => /\ ~is_some(get_option(unwrap(outcome.request.response), Block1))
              /\ ~is_some(get_option(unwrap(outcome.request.response), Block2))

\* C24: whenever max_block_size (max_total_message_size minus the
\* non-payload size and the 12-byte reserve) is below 16, block-size
\* negotiation fails with an internal (5.00) HandlingError and produces no
\* block option.
C24_BelowSixteenFails ==
    negotiated_below(16) => failed_internal

\* The same for a max_block_size of 0 or below, for a request without a
\* block option.
C24_NoRoomFails ==
    (/\ negotiated_below(1)
     /\ outcome.call = "intercept_request"
     /\ ~is_some(first_block_option(outcome.sent.message, Block1)))
        => failed_internal

\* With max_block_size 11 a PUT of 30 bytes has been answered with 4.13 and
\* Block1 size 16.
C24_SixteenGiven ==
    /\ outcome.call = "intercept_request"
    /\ max_block_size_of(outcome.sent.message) = 11
    /\ Len(outcome.sent.message.payload) = 30
    /\ outcome.result = Ok(TRUE)
    /\ unwrap(outcome.request.response).header.code
           = Response("RequestEntityTooLarge")
    /\ first_block_option(unwrap(outcome.request.response), Block1)
           = Some(new_block_value(0, TRUE, 16).v)

\* With max_block_size 0 a PUT has failed with an internal error.
C24_NoRoom ==
    /\ outcome.call = "intercept_request"
    /\ max_block_size_of(outcome.sent.message) = 0
    /\ failed_internal

\* The Block2 option of the request of the last call.
sent_block2 == unwrap(first_block_option(outcome.sent.message, Block2))

\* The last call was intercept_request, for a key with a cached response,
\* with a Block2 request (no Block1 option, no payload) whose offset lies at
\* or beyond the end of the cached payload.
beyond_cached_payload ==
    /\ outcome.call = "intercept_request"
    /\ plain(outcome.sent)
    /\ is_some(outcome.sent.response)
    /\ is_some(first_block_option(outcome.sent.message, Block2))
    /\ is_some(outcome.cached)
    /\ sent_block2.num * block_size(sent_block2)
           >= Len(unwrap(outcome.cached).payload)

\* C25: a Block2 request for a key with a cached response whose offset
\* num * size lies at or beyond the end of the cached payload makes
\* intercept_request return a bad_request (4.00) HandlingError, and the
\* cached response stays in the cache unchanged.
C25_BeyondPayload ==
    beyond_cached_payload
        => /\ outcome.result = Err("bad_request")
           /\ forwarded = None
           /\ states[outcome.key].cached_response = outcome.cached

\* Block2 num 3 at size 16 (offset 48) has been refused for a cached payload
\* of 40 bytes, which is still cached.
C25_Witness ==
    /\ beyond_cached_payload
    /\ sent_block2.num = 3
    /\ block_size(sent_block2) = 16
    /\ Len(unwrap(outcome.cached).payload) = 40
    /\ outcome.result = Err("bad_request")
    /\ states[outcome.key].cached_response = outcome.cached

\* The last call was intercept_request with a final Block1 block
\* (more = false) that went on to the application.
final_block_handed ==
    /\ outcome.call = "intercept_request"
    /\ is_some(first_block_option(outcome.sent.message, Block1))
    /\ ~handled_block1.more
    /\ outcome.result = Ok(FALSE)

\* The reassembly buffer after the write of the handled block.
buffer_written ==
    extending_splice(outcome.buffer,
                     handled_block1.num * block_size(handled_block1),
                     write_end, outcome.sent.message.payload,
                     MAXIMUM_UNCOMMITTED_BUFFER_RESERVE_LENGTH).v

\* The offset in the buffer at which the payload of the handled block ends.
payload_end ==
    (handled_block1.num * block_size(handled_block1))
        + Len(outcome.sent.message.payload)

\* C26: when a Block1 request with more = false arrives for block k, the
\* payload handed to the application is exactly the content of offsets
\* [0, (k+1)*size) of the reassembly buffer (ending where the final block's
\* payload ends), whatever blocks with numbers above k were written to the
\* buffer before, in this or an abandoned earlier transfer of the same key.
C26_FinalBlockPrefix ==
    final_block_handed
        => outcome.request.message.payload
               = SubSeq(buffer_written, 1, payload_end)

\* The same when no block above k was written to the buffer before.
C26_FinalBlockPrefixNoneAbove ==
    (final_block_handed /\ Len(outcome.buffer) <= write_end)
        => outcome.request.message.payload
               = SubSeq(buffer_written, 1, payload_end)

\* After blocks 0, 1 and 2 of an abandoned upload, blocks 0 and 1 (the final
\* one, 8 bytes) of a new upload have handed the application 40 bytes: block
\* 2 of the abandoned upload follows the 24 bytes of the new one.
C26_BlocksAboveKept ==
    /\ final_block_handed
    /\ handled_block1.num = 1
    /\ block_size(handled_block1) = 16
    /\ Len(outcome.buffer) = 48
    /\ payload_end = 24
    /\ outcome.sent.message.payload = SubSeq(bytes_from(100, 24), 17, 24)
    /\ outcome.request.message.payload
           = bytes_from(100, 24) \o SubSeq(bytes_from(0, 48), 33, 48)

\* The final block 3 of an upload has handed the application the 56 bytes of
\* the buffer.
C26_Handed ==
    /\ final_block_handed
    /\ handled_block1.num = MaxBlockNum
    /\ Len(outcome.buffer) = 16 * MaxBlockNum
    /\ outcome.request.message.payload = bytes_from(0, 16 * MaxBlockNum + 8)

\* The last call was intercept_request with a Block1 block with more = true
\* that has been answered with 2.31 Continue.
continue_sent ==
    /\ outcome.call = "intercept_request"
    /\ is_some(first_block_option(outcome.sent.message, Block1))
    /\ handled_block1.more
    /\ outcome.result = Ok(TRUE)
    /\ unwrap(outcome.request.response).header.code = Response("Continue")

\* The Block1 option of the response of the last call.
response_block1 ==
    unwrap(first_block_option(unwrap(outcome.request.response), Block1))

\* The Block1 option of the response has the num and the block size of the
\* request's.
block1_echoed ==
    /\ is_some(first_block_option(unwrap(outcome.request.response), Block1))
    /\ response_block1.num = handled_block1.num
    /\ block_size(response_block1) = block_size(handled_block1)

\* C27: for a Block1 request with more = true, the 2.31 Continue response
\* carries a Block1 option that echoes the request's block: the same num and
\* the same block size as the request's Block1.
C27_Block1Echoed ==
    continue_sent => block1_echoed

\* The same when the request's block size is within max_block_size.
C27_Block1EchoedWithinMax ==
    (/\ continue_sent
     /\ block_size(handled_block1) <= max_block_size_of(outcome.sent.message))
        => block1_echoed

\* With max_block_size 8, Block1 num 1 at size 16 has been answered with
\* Block1 num 2 at size 16.
C27_NumDoubled ==
    /\ continue_sent
    /\ max_block_size_of(outcome.sent.message) = 8
    /\ handled_block1.num = 1
    /\ block_size(handled_block1) = 16
    /\ response_block1.num = 2
    /\ block_size(response_block1) = 16

\* With max_block_size 24, Block1 num 2 at size 16 has been echoed.
C27_Echoed ==
    /\ continue_sent
    /\ max_block_size_of(outcome.sent.message) = 24
    /\ handled_block1.num = 2
    /\ block1_echoed

\* The bytes of a sequence.
bytes_of(s) == {s[i] : i \in 1..Len(s)}

\* The block that the last call has served from the cache is the requested
\* block of the content of the request's own key.
served_own ==
    (outcome.call = "intercept_request" /\ outcome.from_cache)
        => unwrap(outcome.request.response).payload
               = slice(own_content(outcome.sent),
                       sent_block2.num * block_size(sent_block2),
                       min((sent_block2.num + 1) * block_size(sent_block2),
                           Len(own_content(outcome.sent))))

\* The reassembly buffer that the Block1 request of the last call has
\* written to held only bytes of the request's own key (and the zeros that
\* fill a gap), and so does the payload that went on to the application.
written_own ==
    /\ (/\ outcome.call = "intercept_request"
        /\ is_some(first_block_option(outcome.sent.message, Block1)))
           => bytes_of(outcome.buffer)
                  \subseteq bytes_of(own_content(outcome.sent)) \cup {0}
    /\ final_block_handed
           => bytes_of(outcome.request.message.payload)
                  \subseteq bytes_of(own_content(outcome.sent)) \cup {0}

\* C28: block state is separate per (method, uri-path, endpoint): under any
\* interleaving of requests from several endpoints, paths and methods, a
\* request is never served a block of a response cached for a different key,
\* and its Block1 payload is never written into the reassembly buffer of a
\* different key.
C28_KeysSeparate == served_own /\ written_own

\* The same for the requests whose uri-path is UTF-8.
C28_KeysSeparateUtf8 ==
    (/\ outcome.call = "intercept_request"
     /\ get_path_as_vec(outcome.sent).ok)
        => (served_own /\ written_own)

\* A GET of the path FE with Block2 num 1 has been served block 1 of the
\* response cached for the path FF.
C28_SharedPath ==
    /\ outcome.call = "intercept_request"
    /\ outcome.from_cache
    /\ peer_key(outcome.sent) = PeerKeys[6]
    /\ unwrap(outcome.request.response).payload = SubSeq(content_of(5), 17, 24)

\* While the application holds a request of the other endpoint, a GET /test
\* with Block2 num 1 has been served block 1 of its own response.
C28_OwnBlock ==
    /\ outcome.call = "intercept_request"
    /\ outcome.from_cache
    /\ peer_key(outcome.sent) = PeerKeys[1]
    /\ Len(forwarded) = 1
    /\ peer_key(forwarded[1]) = PeerKeys[2]
    /\ unwrap(outcome.request.response).payload = SubSeq(content_of(1), 17, 24)

\* C29: a block that intercept_request serves from the cache always comes
\* from the most recent response the application produced for that key: once
\* a newer response for the same (endpoint, method, path) has passed through
\* intercept_response, whether or not it needed fragmentation, the older
\* cached response is never served again.
C29_LatestServed ==
    (outcome.call = "intercept_request" /\ outcome.from_cache)
        => /\ outcome.key \in DOMAIN latest
           /\ unwrap(outcome.cached).payload = latest[outcome.key]

\* A response that intercept_response has cut into blocks is the cached
\* response of its key from then on.
C29_FragmentedReplaces ==
    (outcome.call = "intercept_response" /\ outcome.result = Ok(TRUE))
        => /\ is_some(states[outcome.key].cached_response)
           /\ unwrap(states[outcome.key].cached_response).payload
                  = latest[outcome.key]

\* After a response of 40 bytes was cached and a newer one of 5 bytes has
\* passed, Block2 num 1 has been served bytes 17..32 of the older response.
C29_StaleServed ==
    /\ outcome.call = "intercept_request"
    /\ outcome.from_cache
    /\ latest[outcome.key] = bytes_from(100, 5)
    /\ unwrap(outcome.cached).payload = bytes_from(0, 40)
    /\ sent_block2.num = 1
    /\ unwrap(outcome.request.response).payload
           = SubSeq(bytes_from(0, 40), 17, 32)

\* A response of 32 bytes has replaced a cached response of 40 bytes.
C29_Replaced ==
    /\ outcome.call = "intercept_response"
    /\ outcome.result = Ok(TRUE)
    /\ is_some(outcome.cached)
    /\ unwrap(outcome.cached).payload = bytes_from(0, 40)
    /\ unwrap(states[outcome.key].cached_response).payload
           = bytes_from(50, 32)

\* The observers of the acknowledger at a resource, in an observer map.
acknowledger_at(map, resource) ==
    IF resource \in DOMAIN map
    THEN SelectSeq(map[resource].observers,
                   LAMBDA o : o.endpoint = Acknowledger)
    ELSE <<>>

\* C30: with an unacknowledged limit of at least 1, an observer whose every
\* notification is acknowledged (same endpoint, same message id) before the
\* next resource_changed on its resource is never removed, however many
\* notifications are sent, and its unacknowledged count never exceeds 1.
C30_AcknowledgerStays ==
    /\ [](\A p \in ObserveResources :
              \A i \in 1..Len(acknowledger_at(resources, p)) :
                  acknowledger_at(resources, p)[i].unacknowledged_messages <= 1)
    /\ [][\A p \in ObserveResources :
              acknowledger_at(resources, p) # <<>>
                  => acknowledger_at(resources', p) # <<>>]_vars

\* After MaxSequence changes of a resource under limit 1 the acknowledger is
\* its only observer: the second endpoint, which has acknowledged nothing,
\* is removed.
C30_Witness ==
    /\ "temp" \in DOMAIN resources
    /\ resources["temp"].sequence = MaxSequence
    /\ unacknowledged_limit = 1
    /\ Len(resources["temp"].observers) = 1
    /\ resources["temp"].observers[1].endpoint = Acknowledger
    /\ resources["temp"].observers[1].unacknowledged_messages = 0
    /\ last.op = "acknowledge"

====
